---- MODULE Spec2Model ----
(***************************************************************************)
(* State-machine model of the caching / rate-limiting core of              *)
(* backend/src/controllers/dashboardController.js.                         *)
(*                                                                         *)
(* Node.js runs every synchronous stretch of code to completion, so each   *)
(* action below is one such stretch: a call up to its first real           *)
(* suspension (a network await), a timer callback, or the continuation     *)
(* that runs when a network call settles.                                  *)
(*                                                                         *)
(* Token amounts are kept exactly, in units of 1/MS_PER_MIN token: the     *)
(* refill rate RATE_PER_MIN / 60000 tokens per ms is then RATE_PER_MIN     *)
(* units per ms and one token is MS_PER_MIN units.                         *)
(***************************************************************************)
EXTENDS Integers, Sequences, FiniteSets, TLC

VARIABLES
    now,            \* Date.now(), in ms since the module was loaded
    tokens,         \* token bucket level, in 1/MS_PER_MIN token
    lastRefill,     \* time of the last refill
    lastTry,        \* observer: the most recent tryConsumeToken call
    markAt,         \* observer: start of the observed interval, -1 = none
    grants,         \* observer: successful tryConsumeToken calls since markAt
    waiter,         \* observer: a caller that asked msUntilNextToken()
    PRICE_CACHE,    \* Map: price key -> [ts, data]
    INFLIGHT,       \* Map: price key -> promise
    SCHEDULED,      \* Set of price keys with a background refresh scheduled
    timers,         \* pending setTimeout callbacks of scheduleBackgroundRefresh
    loaders,        \* doFetch invocations that have not settled yet
    callers,        \* fetchPrices calls: position, local variables, result
    USER_AI_CACHE,  \* Map in insertion order: user id -> [key, item, ts]
    AI_INFLIGHT_PER_USER,   \* Map: user id -> promise
    computes,       \* fetchAiInsight invocations that have not settled yet
    aiCalls,        \* getDailyAiInsight calls: position and result
    dash,           \* getDashboard requests: position, user, response status
    backoff,        \* one fetchWithBackoff invocation: position and counters
    USER_NEWS,      \* Map in insertion order: user id -> [items, updatedAt, lastRefreshAt]
    NEWS_CACHE,     \* Map: news query key -> [ts, items]
    newsCalls,      \* requests of the news routes: position and answer
    newsFetches,    \* upstream news requests that have not settled yet
    refreshes,      \* observer: refresh requests let through so far
    aiLog,          \* observer: period key and path of each getDailyAiInsight call
    clock,          \* an instant and what currentPeriodKey computes for it
    MEME_CACHE,     \* the meme feed fetched last, an array of items
    MEME_CACHE_TS,  \* when the fetch that filled MEME_CACHE began
    USER_MEME_RECENTS,  \* Map in insertion order: user id -> queue of meme ids
    memeCalls,      \* getRandomMemeForUser calls: position and result
    memeLoads,      \* builds of the meme feed that have not settled yet
    memeLast,       \* observer: the id each user was given last
    memeStarts,     \* observer: getRandomMemeForUser calls started so far
    scoring,        \* one application of personalizeNews: input and output
    FEEDBACK,       \* table feedback: <<user, type, id>> -> vote, one row each
    fbCall,         \* the feedback request being served: position and answer
    refreshLog      \* observer: the last fired background refresh, and the
                    \* loaders started by fetchPrices calls so far

bucketVars == <<tokens, lastRefill>>
observerVars == <<lastTry, markAt, grants, waiter>>
priceVars == <<PRICE_CACHE, INFLIGHT, SCHEDULED, timers, loaders, callers>>
aiVars == <<USER_AI_CACHE, AI_INFLIGHT_PER_USER, computes, aiCalls>>
vars == <<now, tokens, lastRefill, lastTry, markAt, grants, waiter,
          PRICE_CACHE, INFLIGHT, SCHEDULED, timers, loaders, callers,
          USER_AI_CACHE, AI_INFLIGHT_PER_USER, computes, aiCalls, dash,
          backoff, USER_NEWS, NEWS_CACHE, newsCalls, newsFetches, refreshes,
          aiLog, clock, MEME_CACHE, MEME_CACHE_TS, USER_MEME_RECENTS,
          memeCalls, memeLoads, memeLast, memeStarts, scoring,
          FEEDBACK, fbCall, refreshLog>>

\* the state of the parts modelled further down, and their state in the
\* specifications that do not run them
newsVars == <<USER_NEWS, NEWS_CACHE, newsCalls, newsFetches, refreshes>>
memeVars == <<MEME_CACHE, MEME_CACHE_TS, USER_MEME_RECENTS, memeCalls,
              memeLoads, memeLast, memeStarts>>
fbVars == <<FEEDBACK, fbCall>>
moreVars == <<memeVars, scoring, fbVars, refreshLog>>
restVars == <<backoff, newsVars, aiLog, clock, moreVars>>
MoreOff ==
    /\ MEME_CACHE = <<>>
    /\ MEME_CACHE_TS = 0
    /\ USER_MEME_RECENTS = <<>>
    /\ memeCalls = <<>>
    /\ memeLoads = {}
    /\ memeLast = <<>>
    /\ memeStarts = 0
    /\ scoring = <<>>
    /\ FEEDBACK = <<>>
    /\ fbCall = <<>>
    /\ refreshLog = <<>>
RestOff ==
    /\ backoff = <<>>
    /\ USER_NEWS = <<>>
    /\ NEWS_CACHE = <<>>
    /\ newsCalls = <<>>
    /\ newsFetches = {}
    /\ refreshes = 0
    /\ aiLog = <<>>
    /\ clock = <<>>
    /\ MoreOff

(***************************************************************************)
(* Bounds of the model.                                                    *)
(***************************************************************************)
MaxTime == 9000
TickMs == 4500

\* CG_RATE_PER_MIN, configured small: the bucket then empties after a few calls
RATE_PER_MIN == 7

(***************************************************************************)
(* Program constants.                                                      *)
(***************************************************************************)
MS_PER_MIN == 60000
MIN_BG_DELAY_MS == 200

CAPACITY == RATE_PER_MIN

\* one token, and the full bucket, in the unit of the variable tokens
ONE_TOKEN == MS_PER_MIN
FULL == CAPACITY * ONE_TOKEN

Min(a, b) == IF a < b THEN a ELSE b
Max(a, b) == IF a > b THEN a ELSE b
CeilDiv(a, b) == (a + b - 1) \div b

(***************************************************************************)
(* Token bucket.                                                           *)
(***************************************************************************)
\* faulty variant: the elapsed time is credited but lastRefill is not advanced
RefillLosingClock(tk, lr, t) ==
    IF t - lr > 0
    THEN [tokens |-> Min(FULL, tk + (t - lr) * RATE_PER_MIN), lastRefill |-> lr]
    ELSE [tokens |-> tk, lastRefill |-> lr]

\* faulty variant: the refill is not capped at CAPACITY
RefillUncapped(tk, lr, t) ==
    IF t - lr > 0
    THEN [tokens |-> tk + (t - lr) * RATE_PER_MIN, lastRefill |-> t]
    ELSE [tokens |-> tk, lastRefill |-> lr]

\* lines 347-352 of tryConsumeToken: credit the time elapsed since lastRefill
Refill(tk, lr, t) ==
    IF t - lr > 0
    THEN [tokens |-> Min(FULL, tk + (t - lr) * RATE_PER_MIN), lastRefill |-> t]
    ELSE [tokens |-> tk, lastRefill |-> lr]

\* faulty variant: the token is granted but not taken from the bucket
tryConsumeTokenUnpaid(tk, lr, t) ==
    LET r == Refill(tk, lr, t) IN
    [ok |-> r.tokens >= ONE_TOKEN, refilled |-> r.tokens,
     tokens |-> r.tokens, lastRefill |-> r.lastRefill]

\* tryConsumeToken at time t from bucket state (tk, lr): the returned
\* boolean, the level after the refill and the new bucket state
tryConsumeToken(tk, lr, t) ==
    LET r == Refill(tk, lr, t) IN
    IF r.tokens >= ONE_TOKEN
    THEN [ok |-> TRUE, refilled |-> r.tokens,
          tokens |-> r.tokens - ONE_TOKEN, lastRefill |-> r.lastRefill]
    ELSE [ok |-> FALSE, refilled |-> r.tokens,
          tokens |-> r.tokens, lastRefill |-> r.lastRefill]

\* faulty variant: the wait is rounded down
msUntilNextTokenFloor(tk) ==
    IF tk >= ONE_TOKEN THEN 0 ELSE (ONE_TOKEN - tk) \div RATE_PER_MIN

\* msUntilNextToken: reads tokens as left by the last refill
msUntilNextToken(tk) ==
    IF tk >= ONE_TOKEN THEN 0 ELSE CeilDiv(ONE_TOKEN - tk, RATE_PER_MIN)

(***************************************************************************)
(* The token bucket on its own: callers of tryConsumeToken and of          *)
(* msUntilNextToken at non-decreasing times.                               *)
(***************************************************************************)
NoTry == [called |-> FALSE, ok |-> FALSE, refilled |-> 0, after |-> 0]
NoWaiter == [state |-> "none", at |-> 0, w |-> 0]

BucketInit ==
    /\ now = 0
    /\ tokens = FULL
    /\ lastRefill = 0
    /\ lastTry = NoTry
    /\ markAt = -1
    /\ grants = 0
    /\ waiter = NoWaiter
    /\ PRICE_CACHE = <<>>
    /\ INFLIGHT = <<>>
    /\ SCHEDULED = {}
    /\ timers = <<>>
    /\ loaders = {}
    /\ callers = <<>>
    /\ USER_AI_CACHE = <<>>
    /\ AI_INFLIGHT_PER_USER = <<>>
    /\ computes = {}
    /\ aiCalls = <<>>
    /\ dash = <<>>
    /\ RestOff

\* the clock advances, by a step or up to the instant the waiter was told
WakeTimes ==
    {now + TickMs}
        \cup (IF waiter.state = "waiting" THEN {waiter.at + waiter.w} ELSE {})

BucketTick ==
    /\ \E t \in WakeTimes : t > now /\ t <= MaxTime /\ now' = t
    /\ UNCHANGED <<bucketVars, observerVars, priceVars, aiVars, dash>>
    /\ UNCHANGED restVars

\* some caller other than the waiter calls tryConsumeToken()
BucketTryConsume ==
    LET r == tryConsumeToken(tokens, lastRefill, now) IN
    /\ tokens' = r.tokens
    /\ lastRefill' = r.lastRefill
    /\ lastTry' = [called |-> TRUE, ok |-> r.ok, refilled |-> r.refilled,
                   after |-> r.tokens]
    /\ grants' = IF markAt >= 0 /\ r.ok THEN grants + 1 ELSE grants
    /\ waiter' = IF waiter.state = "waiting" /\ r.ok THEN NoWaiter ELSE waiter
    /\ UNCHANGED <<now, markAt, priceVars, aiVars, dash>>
    /\ UNCHANGED restVars

\* the observed interval starts here
BucketMark ==
    /\ markAt = -1
    /\ markAt' = now
    /\ grants' = 0
    /\ UNCHANGED <<now, bucketVars, lastTry, waiter, priceVars, aiVars, dash>>
    /\ UNCHANGED restVars

\* a caller reads msUntilNextToken() and remembers the answer
BucketAskWait ==
    /\ waiter.state # "waiting"
    /\ waiter' = [state |-> "waiting", at |-> now, w |-> msUntilNextToken(tokens)]
    /\ UNCHANGED <<now, bucketVars, lastTry, markAt, grants, priceVars, aiVars, dash>>
    /\ UNCHANGED restVars

\* that caller calls tryConsumeToken() once the wait is over
BucketWaiterConsume ==
    LET r == tryConsumeToken(tokens, lastRefill, now) IN
    /\ waiter.state = "waiting"
    /\ now >= waiter.at + waiter.w
    /\ tokens' = r.tokens
    /\ lastRefill' = r.lastRefill
    /\ lastTry' = [called |-> TRUE, ok |-> r.ok, refilled |-> r.refilled,
                   after |-> r.tokens]
    /\ grants' = IF markAt >= 0 /\ r.ok THEN grants + 1 ELSE grants
    /\ waiter' = [waiter EXCEPT !.state = IF r.ok THEN "granted" ELSE "refused"]
    /\ UNCHANGED <<now, markAt, priceVars, aiVars, dash>>
    /\ UNCHANGED restVars

BucketNext ==
    \/ BucketTick
    \/ BucketTryConsume
    \/ BucketMark
    \/ BucketAskWait
    \/ BucketWaiterConsume

SpecBucket == BucketInit /\ [][BucketNext]_vars

(***************************************************************************)
(* Properties of the token bucket.                                         *)
(***************************************************************************)

\* C5: the bucket level stays within 0..CAPACITY, and a tryConsumeToken call
\* whose level after the refill is below one token returns false and debits
\* nothing.
C5_TokenBounds ==
    /\ 0 <= tokens /\ tokens <= FULL
    /\ (lastTry.called /\ lastTry.refilled < ONE_TOKEN)
          => (~lastTry.ok /\ lastTry.after = lastTry.refilled)
    /\ (lastTry.called /\ lastTry.ok)
          => (lastTry.refilled >= ONE_TOKEN
                /\ lastTry.after = lastTry.refilled - ONE_TOKEN)

\* a refused call after the bucket has been emptied and partly refilled
C5_Witness ==
    /\ lastTry.called /\ ~lastTry.ok
    /\ 0 < lastTry.refilled /\ lastTry.refilled < ONE_TOKEN
    /\ tokens = lastTry.refilled

\* C6: in the interval from markAt to now, of length d, at most
\* CAPACITY + d * refillPerMs calls of tryConsumeToken returned true.
C6_NoDoubleCredit ==
    markAt >= 0 =>
        grants * ONE_TOKEN <= FULL + (now - markAt) * RATE_PER_MIN

\* more grants than the capacity in an interval that needed refills for it
C6_Witness ==
    /\ markAt >= 0
    /\ now > markAt
    /\ grants > CAPACITY

PRICE_CACHE_TTL_MS == 2500

\* bounds: concurrent fetchPrices calls, promise identities, upstream quotes
NumCallers == 2
MaxLoaders == 3
MaxQuote == 1

Callers == 1..NumCallers
LoaderIds == 1..MaxLoaders
Quotes == 1..MaxQuote

Range(f) == {f[x] : x \in DOMAIN f}

\* Map.set and Map.delete
MapSet(m, k, v) == [x \in DOMAIN m \cup {k} |-> IF x = k THEN v ELSE m[x]]
MapDelete(m, k) == [x \in DOMAIN m \ {k} |-> m[x]]

\* String(s).toLowerCase().trim() on the asset ids that callers send
LowerTrim(a) == IF a = " Bitcoin" THEN "bitcoin" ELSE a

\* Array.prototype.sort on these ids: "bitcoin" sorts before "ethereum"
Before(a, b) == a = "bitcoin" /\ b = "ethereum"

\* the asset lists callers ask prices for (user preferences, or none)
AssetLists ==
    {<<>>, <<"ethereum", "bitcoin">>, <<" Bitcoin">>, <<"bitcoin">>}

priceKey(assets) ==
    LET list == IF Len(assets) > 0 THEN assets ELSE <<"bitcoin", "ethereum">>
        norm == [i \in 1..Len(list) |-> LowerTrim(list[i])]
    IN  SortSeq(norm, Before)

FALLBACK ==
    [a \in {"bitcoin", "ethereum"} |-> IF a = "bitcoin" THEN 64000 ELSE 3200]

\* what the upstream may answer for a key: a quote for each id, an empty
\* object, or no usable answer at all (fetchWithBackoff throws)
Payload(key, q) == [a \in Range(key) |-> q]
EmptyPayload == [a \in {} |-> 0]
Responses(key) ==
    {[thrown |-> FALSE, json |-> Payload(key, q)] : q \in Quotes}
        \cup {[thrown |-> FALSE, json |-> EmptyPayload],
              [thrown |-> TRUE, json |-> EmptyPayload]}

\* how a promise settles, as seen by the code that awaits it
Fulfilled(data) == [ok |-> TRUE, data |-> data]
Rejected == [ok |-> FALSE, data |-> EmptyPayload]

\* faulty variant: the cache is written whatever the upstream answered
doFetchStoresAnyway(key, resp, cache, t) ==
    [cache |-> MapSet(cache, key, [ts |-> t, data |-> resp.json]),
     out |-> IF resp.thrown \/ DOMAIN resp.json = {} THEN Rejected
             ELSE Fulfilled(resp.json)]

\* doFetch once the upstream has answered: the cache it leaves behind and
\* the way it settles
doFetch(key, resp, cache, t) ==
    IF resp.thrown \/ DOMAIN resp.json = {}
    THEN [cache |-> cache, out |-> Rejected]
    ELSE [cache |-> MapSet(cache, key, [ts |-> t, data |-> resp.json]),
          out |-> Fulfilled(resp.json)]

\* faulty variant: an entry of age exactly TTL still counts as fresh
IsFreshInclusive(entry, t) == t - entry.ts <= PRICE_CACHE_TTL_MS

\* line 441: the entry is fresh

IsFresh(entry, t) == t - entry.ts < PRICE_CACHE_TTL_MS

\* faulty variant: fetchPrices does not look at INFLIGHT
JoinsNever(key, inflight) == FALSE

\* line 443: a loader is registered for the key

Joins(key, inflight) == key \in DOMAIN inflight

\* faulty variant: the fired refresh does not look at INFLIGHT
BgBlind(key, inflight) == FALSE

\* line 416: the fired refresh finds a loader registered for the key

BgSeesInflight(key, inflight) == key \in DOMAIN inflight

\* faulty variant: no SCHEDULED.has(key) guard
scheduleUnguarded(key, sched, tq, tk, t) ==
    [SCHEDULED |-> sched \cup {key},
     timers |-> Append(tq, [key |-> key,
                            due |-> t + Max(MIN_BG_DELAY_MS, msUntilNextToken(tk))])]

\* scheduleBackgroundRefresh(key), with tokens as left by the refused
\* tryConsumeToken: the new SCHEDULED set and timer queue
scheduleBackgroundRefresh(key, sched, tq, tk, t) ==
    IF key \in sched
    THEN [SCHEDULED |-> sched, timers |-> tq]
    ELSE [SCHEDULED |-> sched \cup {key},
          timers |-> Append(tq, [key |-> key,
                                 due |-> t + Max(MIN_BG_DELAY_MS, msUntilNextToken(tk))])]

\* the settlement of the promise p that wraps doFetch: fetchPrices' wrapper
\* (lines 446-456) catches, the refresh's wrapper (lines 419-425) does not
Wrapper(origin, key, out, cache) ==
    IF out.ok \/ origin = "bg"
    THEN out
    ELSE IF key \in DOMAIN cache
         THEN Fulfilled(cache[key].data)
         ELSE Fulfilled(FALLBACK)

\* faulty variant: the registration is removed on success only
FinallyOnSuccessOnly(key, inflight, out) ==
    IF out.ok THEN MapDelete(inflight, key) ELSE inflight

\* the finally block of both wrappers
Finally(key, inflight, out) == MapDelete(inflight, key)

Idle ==
    [pc |-> "idle", key |-> <<>>, path |-> "none", prom |-> 0, result |-> Rejected]

\* a promise identity no loader and no call refers to
UsedIds ==
    {l.id : l \in loaders} \cup Range(INFLIGHT)
        \cup {callers[c].prom : c \in DOMAIN callers}
FreeIds == LoaderIds \ UsedIds
NewId == CHOOSE i \in FreeIds : \A j \in FreeIds : i <= j

\* A call that has its answer resumes its caller in the microtask queue, so
\* before any other request, timer callback or network completion runs.
\* (The price part of a dashboard request resumes getDashboard only once
\* Promise.all has settled: when it is rejected, or when the AI part is done.)
Resumable(c) ==
    /\ callers[c].pc = "done"
    /\ (c \in DOMAIN dash /\ dash[c].pc = "all")
          => (~callers[c].result.ok \/ aiCalls[c].pc = "done")
\* (A request that has been answered leaves at once, unless a call it made
\* is still outstanding.)
Answered(r) == dash[r].pc = "sent" /\ aiCalls[r].pc # "waiting"
Quiet ==
    /\ \A c \in DOMAIN callers : ~Resumable(c)
    /\ \A r \in DOMAIN dash : ~Answered(r)

PriceInit ==
    /\ PRICE_CACHE = <<>>
    /\ INFLIGHT = <<>>
    /\ SCHEDULED = {}
    /\ timers = <<>>
    /\ loaders = {}
    /\ callers = [c \in Callers |-> Idle]

Init ==
    /\ now = 0
    /\ tokens = FULL
    /\ lastRefill = 0
    /\ lastTry = NoTry
    /\ markAt = -1
    /\ grants = 0
    /\ waiter = NoWaiter
    /\ PriceInit
    /\ USER_AI_CACHE = <<>>
    /\ AI_INFLIGHT_PER_USER = <<>>
    /\ computes = {}
    /\ aiCalls = <<>>
    /\ dash = <<>>
    /\ RestOff

\* fetchPrices(assets), lines 436-465, up to its return
fetchPrices(c, assets) ==
    LET key == priceKey(assets)
        has == key \in DOMAIN PRICE_CACHE
        cached == IF has THEN PRICE_CACHE[key] ELSE [ts |-> 0, data |-> EmptyPayload]
        r == tryConsumeToken(tokens, lastRefill, now)
        sch == scheduleBackgroundRefresh(key, SCHEDULED, timers, r.tokens, now)
        me == [Idle EXCEPT !.key = key]
    IN
    /\ callers[c].pc = "idle"
    /\ IF has /\ IsFresh(cached, now)
       THEN /\ callers' = [callers EXCEPT ![c] =
                  [me EXCEPT !.pc = "done", !.path = "fresh",
                             !.result = Fulfilled(cached.data)]]
            /\ UNCHANGED <<bucketVars, INFLIGHT, SCHEDULED, timers, loaders>>
       ELSE IF Joins(key, INFLIGHT)
       THEN /\ callers' = [callers EXCEPT ![c] =
                  [me EXCEPT !.pc = "waiting", !.path = "joined",
                             !.prom = INFLIGHT[key]]]
            /\ UNCHANGED <<bucketVars, INFLIGHT, SCHEDULED, timers, loaders>>
       ELSE IF r.ok
       THEN /\ FreeIds # {}
            /\ tokens' = r.tokens
            /\ lastRefill' = r.lastRefill
            /\ loaders' = loaders \cup {[id |-> NewId, key |-> key, origin |-> "fg"]}
            /\ INFLIGHT' = MapSet(INFLIGHT, key, NewId)
            /\ callers' = [callers EXCEPT ![c] =
                  [me EXCEPT !.pc = "waiting", !.path = "started",
                             !.prom = NewId]]
            /\ UNCHANGED <<SCHEDULED, timers>>
       ELSE /\ tokens' = r.tokens
            /\ lastRefill' = r.lastRefill
            /\ SCHEDULED' = sch.SCHEDULED
            /\ timers' = sch.timers
            /\ callers' = [callers EXCEPT ![c] =
                  [me EXCEPT !.pc = "done", !.path = "limited",
                             !.result = IF has THEN Fulfilled(cached.data)
                                               ELSE Fulfilled(FALLBACK)]]
            /\ UNCHANGED <<INFLIGHT, loaders>>
    /\ UNCHANGED PRICE_CACHE

\* a request of the /prices route calls fetchPrices (the free call slot with
\* the lowest number takes it: the slots are interchangeable)
FetchPrices(c, assets) ==
    /\ Quiet
    /\ \A d \in Callers : callers[d].pc = "idle" => c <= d
    /\ fetchPrices(c, assets)
    /\ UNCHANGED <<now, observerVars, aiVars, dash>>
    /\ UNCHANGED restVars

\* the upstream answers loader l: doFetch finishes, the wrapper's catch and
\* finally run, and every call awaiting the promise resumes
LoaderSettles(l, resp) ==
    LET f == doFetch(l.key, resp, PRICE_CACHE, now)
        out == Wrapper(l.origin, l.key, f.out, f.cache)
    IN
    /\ Quiet
    /\ l \in loaders
    /\ PRICE_CACHE' = f.cache
    /\ INFLIGHT' = Finally(l.key, INFLIGHT, f.out)
    /\ loaders' = loaders \ {l}
    /\ callers' = [c \in Callers |->
          IF callers[c].pc = "waiting" /\ callers[c].prom = l.id
          THEN [callers[c] EXCEPT !.pc = "done", !.result = out]
          ELSE callers[c]]
    /\ UNCHANGED <<now, bucketVars, observerVars, SCHEDULED, timers, aiVars, dash>>
    /\ UNCHANGED restVars

\* faulty variant: the marker stays when the callback runs
UnmarkNever(sched, key) == sched

\* line 415: SCHEDULED.delete(key)
Unmark(sched, key) == sched \ {key}

\* the timers left when timer i has fired
TimersWithout(i) ==
    SubSeq(timers, 1, i - 1) \o SubSeq(timers, i + 1, Len(timers))

\* the timer callback of scheduleBackgroundRefresh, lines 414-433
timerCallback(i) ==
    LET key == timers[i].key
        rest == TimersWithout(i)
        sched == Unmark(SCHEDULED, key)
        r == tryConsumeToken(tokens, lastRefill, now)
        sch == scheduleBackgroundRefresh(key, sched, rest, r.tokens, now)
    IN
    /\ Quiet
    /\ timers[i].due <= now
    /\ IF BgSeesInflight(key, INFLIGHT)
       THEN /\ SCHEDULED' = sched
            /\ timers' = rest
            /\ UNCHANGED <<bucketVars, INFLIGHT, loaders>>
       ELSE IF ~r.ok
       THEN /\ tokens' = r.tokens
            /\ lastRefill' = r.lastRefill
            /\ SCHEDULED' = sch.SCHEDULED
            /\ timers' = sch.timers
            /\ UNCHANGED <<INFLIGHT, loaders>>
       ELSE /\ FreeIds # {}
            /\ tokens' = r.tokens
            /\ lastRefill' = r.lastRefill
            /\ SCHEDULED' = sched
            /\ timers' = rest
            /\ loaders' = loaders \cup {[id |-> NewId, key |-> key, origin |-> "bg"]}
            /\ INFLIGHT' = MapSet(INFLIGHT, key, NewId)

\* a timer of scheduleBackgroundRefresh fires
TimerFires(i) ==
    /\ timerCallback(i)
    /\ UNCHANGED <<now, observerVars, PRICE_CACHE, callers, aiVars, dash>>
    /\ UNCHANGED restVars

\* the caller of fetchPrices has its answer and goes away
CallerReturns(c) ==
    /\ callers[c].pc = "done"
    /\ c \notin DOMAIN dash
    /\ callers' = [callers EXCEPT ![c] = Idle]
    /\ UNCHANGED <<now, bucketVars, observerVars, PRICE_CACHE, INFLIGHT,
                   SCHEDULED, timers, loaders, aiVars, dash>>
    /\ UNCHANGED restVars

\* the clock advances: by a step, to the expiry of a cache entry or to the
\* instant a timer is due
PriceWakeTimes ==
    {now + TickMs}
        \cup {timers[i].due : i \in DOMAIN timers}
        \cup {PRICE_CACHE[k].ts + PRICE_CACHE_TTL_MS : k \in DOMAIN PRICE_CACHE}

Tick ==
    /\ Quiet
    /\ \E t \in PriceWakeTimes : t > now /\ t <= MaxTime /\ now' = t
    /\ UNCHANGED <<bucketVars, observerVars, priceVars, aiVars, dash>>
    /\ UNCHANGED restVars

Next ==
    \/ \E c \in Callers, a \in AssetLists : FetchPrices(c, a)
    \/ \E l \in loaders : \E resp \in Responses(l.key) : LoaderSettles(l, resp)
    \/ \E i \in DOMAIN timers : TimerFires(i)
    \/ \E c \in Callers : CallerReturns(c)
    \/ Tick

Spec == Init /\ [][Next]_vars

(***************************************************************************)
(* Properties of the price cache.                                          *)
(***************************************************************************)
TimersFor(k) == {i \in DOMAIN timers : timers[i].key = k}
Waiting(c) == callers[c].pc = "waiting"
Done(c) == callers[c].pc = "done"

\* C1: for every price key at most one doFetch invocation is in flight,
\* whether it was started by fetchPrices or by a fired background refresh.
C1_OneLoaderPerKey ==
    \A l1, l2 \in loaders : l1.key = l2.key => l1 = l2

\* a call has joined the loader that a background refresh started
C1_Witness ==
    \E l \in loaders, c \in Callers :
        /\ l.origin = "bg"
        /\ Waiting(c) /\ callers[c].path = "joined" /\ callers[c].prom = l.id

C3_NeverRejects ==
    \A c \in Callers :
        Done(c) => (callers[c].result.ok /\ DOMAIN callers[c].result.data # {})

\* C8: a call that finds no fresh entry, no loader and no token is answered
\* at once with the last known value, else the static fallback, and leaves
\* exactly one refresh pending for its key; no key ever has more than one
\* pending refresh.
C8_OnePendingRefresh ==
    /\ \A i, j \in DOMAIN timers : timers[i].key = timers[j].key => i = j
    /\ SCHEDULED = {timers[i].key : i \in DOMAIN timers}
    /\ \A c \in Callers :
          callers[c].path = "limited" =>
              LET k == callers[c].key IN
              /\ Done(c)
              /\ Cardinality(TimersFor(k)) = 1
              /\ \A l \in loaders : l.key # k
              /\ callers[c].result =
                    IF k \in DOMAIN PRICE_CACHE
                    THEN Fulfilled(PRICE_CACHE[k].data)
                    ELSE Fulfilled(FALLBACK)

\* a rate-limited call served the stale entry while a refresh for its key
\* was already pending
C8_Witness ==
    \E c \in Callers :
        /\ callers[c].path = "limited"
        /\ callers[c].key \in DOMAIN PRICE_CACHE
        /\ \E i \in DOMAIN timers :
              timers[i].key = callers[c].key /\ timers[i].due < now + MIN_BG_DELAY_MS

\* C10: a fetchPrices call for a key whose entry is younger than the TTL
\* starts no loader and consumes no token; when the entry's age has reached
\* the TTL the call is not served from the entry as fresh.
C10_TTLRespect ==
    [][\A c \in Callers :
          (callers[c].pc = "idle" /\ callers'[c].pc # "idle") =>
              LET k == callers'[c].key IN
              k \in DOMAIN PRICE_CACHE =>
                  IF now - PRICE_CACHE[k].ts < PRICE_CACHE_TTL_MS
                  THEN /\ tokens' = tokens
                       /\ lastRefill' = lastRefill
                       /\ loaders' = loaders
                       /\ callers'[c].path = "fresh"
                       /\ callers'[c].result = Fulfilled(PRICE_CACHE[k].data)
                  ELSE callers'[c].path # "fresh"]_vars

\* a call served from an entry of positive age below the TTL
C10_Witness ==
    \E c \in Callers :
        /\ Done(c) /\ callers[c].path = "fresh"
        /\ now > PRICE_CACHE[callers[c].key].ts

(***************************************************************************)
(* AI insight: the per-user daily cache of getDailyAiInsight.              *)
(***************************************************************************)
MS_PER_HOUR == 3600000
HOURS_PER_DAY == 24
AI_INSIGHT_CUTOFF_HOUR == 7

\* bounds: AI_CACHE_MAX_USERS as configured, and the local hour (in APP_TZ)
\* at which the process was started
AI_MAX_USERS == 2
BootHour == 6

Users == {"u1", "u2"}
DashUsers == {"u1"}

LOCAL_AI_FALLBACKS == {"BTC holding", "ETH/BTC", "SOL volume", "Volatility"}

MS_PER_DAY == HOURS_PER_DAY * MS_PER_HOUR

\* APP_TZ as the Intl formatters see it: the wall clock at instant 0 (ms
\* since a local midnight), and possibly one daylight-saving transition, the
\* instant from which the wall clock is shifted
Zone(base, at, shift) == [base |-> base, at |-> at, shift |-> shift]
LocalMsIn(z, t) == t + z.base + (IF z.shift # 0 /\ t >= z.at THEN z.shift ELSE 0)

\* the local calendar day (numbered) and the local hour 0..23 at instant t
LocalDay(z, t) == LocalMsIn(z, t) \div MS_PER_DAY
LocalHour(z, t) == (LocalMsIn(z, t) % MS_PER_DAY) \div MS_PER_HOUR

\* formatDayKey, lines 480-487: the local calendar day
DayKeyIn(z, t) == LocalDay(z, t)

\* getHourInTz, lines 489-496: hour12: false makes the formatter use the
\* hour cycle h23 or h24, as the runtime's locale data resolve it; with h24
\* the hour after midnight is formatted "24"
HourIn(z, h24, t) ==
    IF h24 /\ LocalHour(z, t) = 0 THEN HOURS_PER_DAY ELSE LocalHour(z, t)

\* currentPeriodKey, lines 498-506
PeriodKeyIn(z, h24, t) ==
    IF HourIn(z, h24, t) < AI_INSIGHT_CUTOFF_HOUR
    THEN DayKeyIn(z, t - MS_PER_DAY)
    ELSE DayKeyIn(z, t)

\* the runs of getDailyAiInsight: a process started at BootHour local time,
\* no transition within the run, hour cycle h23
BootZone == Zone(BootHour * MS_PER_HOUR, 0, 0)
LocalMs(t) == LocalMsIn(BootZone, t)
formatDayKey(t) == DayKeyIn(BootZone, t)
getHourInTz(t) == HourIn(BootZone, FALSE, t)
currentPeriodKey(t) == PeriodKeyIn(BootZone, FALSE, t)

\* what fetchAiInsight may do: return the provider's text, return one of its
\* own canned texts, or throw
LiveItem(t) == [id |-> "ai-live", at |-> t, text |-> "insight"]
StaticItem(text) == [id |-> "ai-static", at |-> 0, text |-> text]
NoItem == [id |-> "none", at |-> 0, text |-> ""]

\* the models tried in turn (AI_MODEL unset), and what the service may do
\* with the request for one of them: answer with a text, answer with an
\* empty text, refuse the model (400, 402, 404, 422), or fail otherwise
AI_MODELS == 3
AiAnswers == {"text", "empty", "skip", "error"}

\* faulty variant: the first answer of the service is returned as it is,
\* also when its text is empty
fetchAiInsightAnyText(t, answers, fb) ==
    IF \E i \in DOMAIN answers : answers[i] \in {"text", "empty"}
    THEN LET i == CHOOSE k \in DOMAIN answers :
                      /\ answers[k] \in {"text", "empty"}
                      /\ \A j \in 1..(k - 1) : answers[j] \notin {"text", "empty"}
         IN  IF answers[i] = "text" THEN LiveItem(t)
             ELSE [id |-> "ai-live", at |-> t, text |-> ""]
    ELSE StaticItem(fb)

\* fetchAiInsight, lines 584-630: the first model that answers with a text
\* gives the item; an empty text, a refusal and any error go on to the next
\* model; after the last one the item is one of the canned texts
fetchAiInsight(t, answers, fb) ==
    IF \E i \in DOMAIN answers : answers[i] = "text"
    THEN LiveItem(t)
    ELSE StaticItem(fb)

\* it throws only when getFetch() does (line 583)
AiOutcomes(t) ==
    {[thrown |-> FALSE, item |-> fetchAiInsight(t, a, fb)] :
        a \in [1..AI_MODELS -> AiAnswers], fb \in LOCAL_AI_FALLBACKS}
        \cup {[thrown |-> TRUE, item |-> NoItem]}

\* USER_AI_CACHE.get(id): the position of the user's record, 0 when absent
AiIndex(cache, u) ==
    IF \E i \in DOMAIN cache : cache[i].id = u
    THEN CHOOSE i \in DOMAIN cache : cache[i].id = u
    ELSE 0

\* faulty variant: the record inserted first is the one evicted
setUserAiEvictFirst(cache, u, rec) ==
    LET entry == [id |-> u, key |-> rec.key, item |-> rec.item, ts |-> rec.ts]
        at == AiIndex(cache, u)
    IN  IF at # 0 THEN [cache EXCEPT ![at] = entry]
        ELSE IF Len(cache) >= AI_MAX_USERS /\ Len(cache) > 0
        THEN Append(Tail(cache), entry)
        ELSE Append(cache, entry)

\* setUserAi, lines 513-528: evict the record with the smallest ts (the
\* first such in insertion order) when a new user would exceed the capacity
setUserAi(cache, u, rec) ==
    LET entry == [id |-> u, key |-> rec.key, item |-> rec.item, ts |-> rec.ts]
        at == AiIndex(cache, u)
        oldest == CHOOSE i \in DOMAIN cache :
                      \A j \in DOMAIN cache :
                          \/ cache[i].ts < cache[j].ts
                          \/ (cache[i].ts = cache[j].ts /\ i <= j)
        kept == IF Len(cache) >= AI_MAX_USERS /\ Len(cache) > 0
                THEN SubSeq(cache, 1, oldest - 1)
                         \o SubSeq(cache, oldest + 1, Len(cache))
                ELSE cache
    IN  IF at # 0
        THEN [cache EXCEPT ![at] = entry]
        ELSE Append(kept, entry)

\* the finally block of getDailyAiInsight's wrapper, line 557
AiFinally(u, inflight, thrown) == MapDelete(inflight, u)

AiIdle == [pc |-> "idle", user |-> "", prom |-> 0, item |-> NoItem]

UsedAiIds ==
    {p.id : p \in computes} \cup Range(AI_INFLIGHT_PER_USER)
        \cup {aiCalls[r].prom : r \in DOMAIN aiCalls}
FreeAiIds == LoaderIds \ UsedAiIds
NewAiId == CHOOSE i \in FreeAiIds : \A j \in FreeAiIds : i <= j

\* faulty variant: a stored record is served whatever its period key
AiHitAnyKey(cache, u, key) == AiIndex(cache, u) # 0

\* line 536: the user has a record stored under the current period key
AiHit(cache, u, key) ==
    AiIndex(cache, u) # 0 /\ cache[AiIndex(cache, u)].key = key

\* faulty variant: a call never joins the compute in flight
AiJoinsNever(u, inflight) == FALSE

\* line 539
AiJoins(u, inflight) == u \in DOMAIN inflight

\* getDailyAiInsight(userId, ...), lines 530-563, up to its return
getDailyAiInsight(r, u) ==
    LET key == currentPeriodKey(now)
        at == AiIndex(USER_AI_CACHE, u)
        me == [AiIdle EXCEPT !.user = u]
    IN
    /\ aiCalls[r].pc = "idle"
    /\ IF AiHit(USER_AI_CACHE, u, key)
       THEN /\ aiCalls' = [aiCalls EXCEPT ![r] =
                  [me EXCEPT !.pc = "done", !.item = USER_AI_CACHE[at].item]]
            /\ UNCHANGED <<AI_INFLIGHT_PER_USER, computes>>
       ELSE IF AiJoins(u, AI_INFLIGHT_PER_USER)
       THEN /\ aiCalls' = [aiCalls EXCEPT ![r] =
                  [me EXCEPT !.pc = "waiting", !.prom = AI_INFLIGHT_PER_USER[u]]]
            /\ UNCHANGED <<AI_INFLIGHT_PER_USER, computes>>
       ELSE /\ FreeAiIds # {}
            /\ computes' = computes \cup {[id |-> NewAiId, user |-> u, key |-> key]}
            /\ AI_INFLIGHT_PER_USER' = MapSet(AI_INFLIGHT_PER_USER, u, NewAiId)
            /\ aiCalls' = [aiCalls EXCEPT ![r] =
                  [me EXCEPT !.pc = "waiting", !.prom = NewAiId]]
    /\ UNCHANGED USER_AI_CACHE

\* fetchAiInsight settles for compute p: lines 543-557 run, and every call
\* awaiting the promise gets the item; fb is the canned text Math.random picks
wrapperSettles(p, outcome, fb) ==
    LET at == AiIndex(USER_AI_CACHE, p.user)
        reuse == at # 0 /\ USER_AI_CACHE[at].key = p.key
        item == IF ~outcome.thrown THEN outcome.item
                ELSE IF reuse THEN USER_AI_CACHE[at].item
                ELSE StaticItem(fb)
    IN
    /\ Quiet
    /\ \A r \in DOMAIN aiCalls : aiCalls[r].pc = "done" => r \in DOMAIN dash
    /\ p \in computes
    /\ USER_AI_CACHE' =
          IF outcome.thrown /\ reuse
          THEN USER_AI_CACHE
          ELSE setUserAi(USER_AI_CACHE, p.user,
                         [key |-> p.key, item |-> item, ts |-> now])
    /\ AI_INFLIGHT_PER_USER' = AiFinally(p.user, AI_INFLIGHT_PER_USER, outcome.thrown)
    /\ computes' = computes \ {p}
    /\ aiCalls' = [r \in DOMAIN aiCalls |->
          IF aiCalls[r].pc = "waiting" /\ aiCalls[r].prom = p.id
          THEN [aiCalls[r] EXCEPT !.pc = "done", !.item = item]
          ELSE aiCalls[r]]

AiSettles(p, outcome, fb) ==
    /\ wrapperSettles(p, outcome, fb)
    /\ UNCHANGED <<now, bucketVars, observerVars, priceVars, dash>>
    /\ UNCHANGED restVars

(***************************************************************************)
(* getDashboard, lines 964-1001.                                           *)
(***************************************************************************)
DashIdle == [pc |-> "idle", user |-> "", prefs |-> "none", status |-> 0]

\* what getPreferencesByUser may do: reject, or resolve with the stored
\* assets (none stored: the empty list); the dashboard users of the model
\* hold the default pair, in either order
DashAssetLists == {<<>>, <<"ethereum", "bitcoin">>}
PrefOutcomes ==
    {[failed |-> TRUE, assets |-> <<>>]}
        \cup {[failed |-> FALSE, assets |-> a] : a \in DashAssetLists}

\* the canned texts Math.random picks in the runs with dashboard requests
DashFallbacks == {"BTC holding", "Volatility"}
DashAiOutcomes(t) ==
    {o \in AiOutcomes(t) : o.item.id = "ai-static" => o.item.text \in DashFallbacks}

\* the request arrives and getDashboard awaits getPreferencesByUser
DashRequest(r, u) ==
    /\ Quiet
    /\ dash[r].pc = "idle"
    /\ \A q \in DOMAIN dash : dash[q].pc = "idle" => r <= q
    /\ dash' = [dash EXCEPT ![r] = [DashIdle EXCEPT !.pc = "prefs", !.user = u]]
    /\ UNCHANGED <<now, bucketVars, observerVars, priceVars, aiVars>>
    /\ UNCHANGED restVars

\* the preferences arrive: lines 968-988 run up to the await of Promise.all
DashPrefs(r, pref) ==
    /\ Quiet
    /\ dash[r].pc = "prefs"
    /\ IF pref.failed
       THEN /\ dash' = [dash EXCEPT ![r].pc = "sent", ![r].prefs = "failed",
                                         ![r].status = 500]
            /\ UNCHANGED <<bucketVars, priceVars, aiVars>>
       ELSE /\ fetchPrices(r, pref.assets)
            /\ getDailyAiInsight(r, dash[r].user)
            /\ dash' = [dash EXCEPT ![r].pc = "all", ![r].prefs = "ok"]
    /\ UNCHANGED <<now, observerVars>>
    /\ UNCHANGED restVars

\* Promise.all has settled: on a rejection the catch block answers 500,
\* otherwise getDashboard goes on to await getRandomMemeForUser
DashResumes(r) ==
    /\ dash[r].pc = "all"
    /\ Resumable(r)
    /\ IF ~callers[r].result.ok
       THEN dash' = [dash EXCEPT ![r].pc = "sent", ![r].status = 500]
       ELSE dash' = [dash EXCEPT ![r].pc = "meme"]
    /\ callers' = [callers EXCEPT ![r] = Idle]
    /\ UNCHANGED <<now, bucketVars, observerVars, PRICE_CACHE, INFLIGHT,
                   SCHEDULED, timers, loaders, aiVars>>
    /\ UNCHANGED restVars

\* getRandomMemeForUser resolves (it catches every upstream failure and
\* falls back to the static memes), and the response is sent
DashMeme(r) ==
    /\ Quiet
    /\ dash[r].pc = "meme"
    /\ dash' = [dash EXCEPT ![r].pc = "sent", ![r].status = 200]
    /\ UNCHANGED <<now, bucketVars, observerVars, priceVars, aiVars>>
    /\ UNCHANGED restVars

\* the request is over; its slot is free once its AI call has settled too
DashDone(r) ==
    /\ Answered(r)
    /\ dash' = [dash EXCEPT ![r] = DashIdle]
    /\ aiCalls' = [aiCalls EXCEPT ![r] = AiIdle]
    /\ UNCHANGED <<now, bucketVars, observerVars, priceVars,
                   USER_AI_CACHE, AI_INFLIGHT_PER_USER, computes>>
    /\ UNCHANGED restVars

DashInit ==
    /\ now = 0
    /\ tokens = FULL
    /\ lastRefill = 0
    /\ lastTry = NoTry
    /\ markAt = -1
    /\ grants = 0
    /\ waiter = NoWaiter
    /\ PriceInit
    /\ USER_AI_CACHE = <<>>
    /\ AI_INFLIGHT_PER_USER = <<>>
    /\ computes = {}
    /\ aiCalls = [r \in Callers |-> AiIdle]
    /\ dash = [r \in Callers |-> DashIdle]
    /\ RestOff

DashNext ==
    \/ \E r \in Callers, u \in DashUsers : DashRequest(r, u)
    \/ \E r \in Callers, pref \in PrefOutcomes : DashPrefs(r, pref)
    \/ \E r \in Callers : DashResumes(r)
    \/ \E r \in Callers : DashMeme(r)
    \/ \E r \in Callers : DashDone(r)
    \/ \E l \in loaders : \E resp \in Responses(l.key) : LoaderSettles(l, resp)
    \/ \E i \in DOMAIN timers : TimerFires(i)
    \/ \E p \in computes : \E o \in DashAiOutcomes(now), fb \in DashFallbacks :
          AiSettles(p, o, fb)
    \/ Tick

SpecDash == DashInit /\ [][DashNext]_vars

(***************************************************************************)
(* Properties of getDashboard and of the in-flight tables.                 *)
(***************************************************************************)

\* C4: getDashboard answers 5xx only when the preference lookup failed;
\* a failing sub-fetch never makes it answer 5xx.
C4_Only5xxOnPrefsFailure ==
    \A r \in DOMAIN dash :
        dash[r].status = 500 => dash[r].prefs = "failed"

\* C9: a price key is registered in INFLIGHT, and a user in
\* AI_INFLIGHT_PER_USER, only while the fetch registered there has not
\* settled: every settlement, successful or not, removes the registration.
C9_RegisteredOnlyWhileInFlight ==
    /\ \A k \in DOMAIN INFLIGHT :
          \E l \in loaders : l.id = INFLIGHT[k] /\ l.key = k
    /\ \A u \in DOMAIN AI_INFLIGHT_PER_USER :
          \E p \in computes : p.id = AI_INFLIGHT_PER_USER[u] /\ p.user = u

\* a request whose price load and whose AI compute both failed: both calls
\* were answered from the fallbacks and neither registration is left
C9_Witness ==
    \E r \in DOMAIN dash :
        /\ dash[r].pc = "all"
        /\ callers[r].pc = "done" /\ callers[r].path = "started"
        /\ callers[r].result = Fulfilled(FALLBACK)
        /\ aiCalls[r].pc = "done" /\ aiCalls[r].prom # 0
        /\ aiCalls[r].item.id = "ai-static"
        /\ callers[r].key \notin DOMAIN INFLIGHT
        /\ dash[r].user \notin DOMAIN AI_INFLIGHT_PER_USER

(***************************************************************************)
(* fetchWithBackoff, lines 373-388: one invocation, the upstream's answers *)
(* and the backoff waits between the attempts.                             *)
(***************************************************************************)
ATTEMPTS == 3
HTTP_OK_MIN == 200
HTTP_OK_MAX == 299
HTTP_TOO_MANY == 429
HTTP_SERVER_MIN == 500
HTTP_SERVER_MAX == 599
MIN_RETRY_AFTER_MS == 400
MS_PER_SEC == 1000
BACKOFF_BASE_MS == 1200
BACKOFF_CAP_MS == 5000
JITTER_MS == 300

\* what the upstream may answer: a network error, or a response with a
\* status, a body that is JSON or not, and possibly a Retry-After header
Statuses == {HTTP_OK_MIN, 204, 304, 404, HTTP_TOO_MANY, HTTP_SERVER_MIN, 503}
\* the longest delay setTimeout takes, a signed 32-bit number of ms, and
\* the shortest Retry-After, in seconds, that is longer
TIMEOUT_MAX == 2147483647
LONG_RETRY_SECS == TIMEOUT_MAX \div MS_PER_SEC + 1

RetryAfters ==
    {[given |-> FALSE, secs |-> 0], [given |-> TRUE, secs |-> 0],
     [given |-> TRUE, secs |-> 2], [given |-> TRUE, secs |-> LONG_RETRY_SECS]}
BackoffResponses ==
    {[neterr |-> TRUE, status |-> 0, json |-> FALSE, retry |-> [given |-> FALSE, secs |-> 0]]}
        \cup {[neterr |-> FALSE, status |-> st, json |-> j, retry |-> ra] :
                 st \in Statuses, j \in BOOLEAN, ra \in RetryAfters}
\* Math.random() * 300, at its two ends
Jitters == {0, JITTER_MS - 1}

\* res.ok of the fetch API, and the test of line 378
ResOk(status) == status >= HTTP_OK_MIN /\ status <= HTTP_OK_MAX
Returns(status) == ResOk(status) /\ status # HTTP_TOO_MANY

\* the statuses the contract calls retryable
Retryable(status) ==
    status = HTTP_TOO_MANY \/ (status >= HTTP_SERVER_MIN /\ status <= HTTP_SERVER_MAX)

\* lines 380-383
backoffDelay(i, retry, jitter) ==
    IF retry.given
    THEN Max(MIN_RETRY_AFTER_MS, retry.secs * MS_PER_SEC)
    ELSE Min(BACKOFF_BASE_MS * 2^i, BACKOFF_CAP_MS) + jitter

\* setTimeout(r, delay) of line 384: the delay the timer is set with (a
\* delay above TIMEOUT_MAX or below 1 is set to 1)
setTimeoutDelay(d) == IF d > TIMEOUT_MAX \/ d < 1 THEN 1 ELSE d

\* the delay of lines 380-383 is above TIMEOUT_MAX (told from the seconds:
\* the model's integers end at TIMEOUT_MAX)
DelayTooLong(retry) == retry.given /\ retry.secs > TIMEOUT_MAX \div MS_PER_SEC

\* lines 380-384: the time after which the backoff timer fires
backoffWait(i, retry, jitter) ==
    IF DelayTooLong(retry) THEN 1
    ELSE setTimeoutDelay(backoffDelay(i, retry, jitter))

\* faulty variant: one attempt too many
LoopContinuesInclusive(i, attempts) == i <= attempts

\* the loop test of line 376
LoopContinues(i, attempts) == i < attempts

BackoffIdle ==
    [pc |-> "idle", i |-> 0, requests |-> 0, waits |-> 0, statuses |-> <<>>,
     delay |-> 0, wake |-> 0, retry |-> [given |-> FALSE, secs |-> 0]]

BackoffInit ==
    /\ now = 0
    /\ tokens = FULL
    /\ lastRefill = 0
    /\ lastTry = NoTry
    /\ markAt = -1
    /\ grants = 0
    /\ waiter = NoWaiter
    /\ PRICE_CACHE = <<>>
    /\ INFLIGHT = <<>>
    /\ SCHEDULED = {}
    /\ timers = <<>>
    /\ loaders = {}
    /\ callers = <<>>
    /\ USER_AI_CACHE = <<>>
    /\ AI_INFLIGHT_PER_USER = <<>>
    /\ computes = {}
    /\ aiCalls = <<>>
    /\ dash = <<>>
    /\ backoff = BackoffIdle
    /\ USER_NEWS = <<>>
    /\ NEWS_CACHE = <<>>
    /\ newsCalls = <<>>
    /\ newsFetches = {}
    /\ refreshes = 0
    /\ aiLog = <<>>
    /\ clock = <<>>
    /\ MoreOff

backoffFrame ==
    <<bucketVars, observerVars, priceVars, aiVars, dash, newsVars, aiLog, clock,
      moreVars>>

\* doFetch calls fetchWithBackoff(url, options, 3): the loop is entered and
\* the first request is sent
BackoffCall ==
    /\ backoff.pc = "idle"
    /\ backoff' =
          IF LoopContinues(0, ATTEMPTS)
          THEN [backoff EXCEPT !.pc = "request", !.requests = 1]
          ELSE [backoff EXCEPT !.pc = "thrown"]
    /\ UNCHANGED <<now, backoffFrame>>

\* the upstream answers the outstanding request: lines 377-384
BackoffResponse(resp, jitter) ==
    LET d == backoffWait(backoff.i, resp.retry, jitter) IN
    /\ backoff.pc = "request"
    /\ backoff' =
          IF resp.neterr
          THEN [backoff EXCEPT !.pc = "thrown"]
          ELSE IF Returns(resp.status)
          THEN [backoff EXCEPT
                   !.pc = IF resp.json THEN "returned" ELSE "thrown",
                   !.statuses = Append(@, resp.status)]
          ELSE [backoff EXCEPT
                   !.pc = "sleep", !.waits = @ + 1, !.delay = d,
                   !.wake = now + d, !.retry = resp.retry,
                   !.statuses = Append(@, resp.status)]
    /\ UNCHANGED <<now, backoffFrame>>

\* the backoff timer fires: lines 385-387 and the next turn of the loop
BackoffWake ==
    /\ backoff.pc = "sleep"
    /\ now' = backoff.wake
    /\ backoff' =
          IF LoopContinues(backoff.i + 1, ATTEMPTS)
          THEN [backoff EXCEPT !.pc = "request", !.i = @ + 1, !.requests = @ + 1]
          ELSE [backoff EXCEPT !.pc = "thrown", !.i = @ + 1]
    /\ UNCHANGED backoffFrame

BackoffNext ==
    \/ BackoffCall
    \/ \E resp \in BackoffResponses, j \in Jitters : BackoffResponse(resp, j)
    \/ BackoffWake

\* every request is answered and every timer fires
SpecBackoff == BackoffInit /\ [][BackoffNext]_vars /\ WF_vars(BackoffNext)

(***************************************************************************)
(* Properties of fetchWithBackoff.                                         *)
(***************************************************************************)
BackoffOver == backoff.pc \in {"returned", "thrown"}
AllRetryable ==
    /\ Len(backoff.statuses) = ATTEMPTS
    /\ \A k \in DOMAIN backoff.statuses : Retryable(backoff.statuses[k])

\* C11: one invocation of fetchWithBackoff sends at most 3 requests and
\* comes to an end; when all 3 attempts got a retryable response it neither
\* returns a value nor sends a further request, and ends by throwing.
C11_BackoffTerminates ==
    /\ [](backoff.requests <= ATTEMPTS)
    /\ [](AllRetryable => (backoff.pc \in {"sleep", "thrown"}
                              /\ backoff.requests = ATTEMPTS))
    /\ <>BackoffOver
    /\ [](BackoffOver => []BackoffOver)

C11_Witness ==
    /\ AllRetryable
    /\ backoff.pc = "thrown"
    /\ backoff.requests = ATTEMPTS

\* C12: when the first response is neither 429 nor 5xx, fetchWithBackoff
\* has sent exactly one request and waits for no backoff delay.
C12_NoRetryOnOtherStatus ==
    (Len(backoff.statuses) >= 1 /\ ~Retryable(backoff.statuses[1]))
        => (backoff.requests = 1 /\ backoff.waits = 0)

(***************************************************************************)
(* Sticky news: fetchNews with its short-lived cache, the per-user table   *)
(* USER_NEWS and the two news routes, lines 60-325.                        *)
(***************************************************************************)
NEWS_TTL_MS == 60000
NEWS_REFRESH_MIN_INTERVAL_MS == 30000
NEWS_THROTTLE_MS == 120
NEWS_LIMIT == 60
MAX_CP == 8
RECENCY_MAX == 200
LT_BONUS == 50
LT_PENALTY == 10
ST_BONUS == 40
COIN_BONUS == 10
COIN_CAPS_BONUS == 5
HTTP_TOO_SOON == 429
HTTP_SENT_OK == 200

\* bounds: NEWS_CACHE_MAX_USERS as configured, the clock of the runs with
\* news requests (Date.now() when the first request arrives, far more than
\* any interval of the code, and the end of the run), the number of request
\* slots, and the number of refresh
\* requests that get past the rate limit in one run
NEWS_MAX_USERS == 2
NewsBootMs == 100000
NewsMaxTime == 100130
NumNewsCalls == 2
MaxRefreshes == 2

NewsUsers == {"u1", "u2", "u3"}
NewsSlots == 1..NumNewsCalls

\* A news item, as far as the scoring looks at it: its id, its age in
\* minutes, whether its title matches LT_POS / ST_POS, and the CryptoPanic
\* symbols its title holds as a word (in any case, and in upper case).
NewsItem(id, age, lt, st, syms, caps) ==
    [id |-> id, age |-> age, lt |-> lt, st |-> st, syms |-> syms, caps |-> caps]

\* lines 21-40 (no published_at: age 0)
FALLBACK_NEWS ==
    << NewsItem("fallback-1", 0, FALSE, FALSE, {}, {}),
       NewsItem("fallback-2", 0, TRUE, FALSE, {}, {}),
       NewsItem("fallback-3", 0, TRUE, FALSE, {}, {}) >>

\* what the provider may hold: "BTC pumps 10% in liquidation squeeze",
\* "Bitcoin ETF approval roadmap announced"
ItemPump == NewsItem("n-pump", 5, FALSE, TRUE, {"btc"}, {"btc"})
ItemEtf == NewsItem("n-etf", 10, TRUE, FALSE, {}, {})
NewsFeeds == {<<ItemPump, ItemEtf>>}

\* the upstream's answer to one page request: an error (network, status
\* or body), or a page of results, possibly empty
NewsResponses ==
    {[ok |-> FALSE, results |-> <<>>], [ok |-> TRUE, results |-> <<>>]}
        \cup {[ok |-> TRUE, results |-> f] : f \in NewsFeeds}

\* ID_TO_CP, lines 164-171
ID_TO_CP ==
    [a \in {"bitcoin", "ethereum", "solana", "cardano", "ripple", "dogecoin"} |->
        CASE a = "bitcoin" -> "btc"
          [] a = "ethereum" -> "eth"
          [] a = "solana" -> "sol"
          [] a = "cardano" -> "ada"
          [] a = "ripple" -> "xrp"
          [] a = "dogecoin" -> "doge"]

\* toCpSymbols, lines 173-181: the known symbols, each once, in the order
\* of first occurrence, at most MAX_CP of them
RECURSIVE CpSymbols(_, _)
CpSymbols(assets, acc) ==
    IF assets = <<>> THEN acc
    ELSE LET id == LowerTrim(Head(assets))
             known == id \in DOMAIN ID_TO_CP
             dup == known /\ \E i \in DOMAIN acc : acc[i] = ID_TO_CP[id]
         IN  CpSymbols(Tail(assets),
                       IF known /\ ~dup THEN Append(acc, ID_TO_CP[id]) ELSE acc)

toCpSymbols(assets) ==
    LET all == CpSymbols(assets, <<>>) IN SubSeq(all, 1, Min(Len(all), MAX_CP))

\* newsKey, lines 63-65: of the query only the currencies vary
newsKey(currencies) == currencies

\* faulty variant: the recency bias alone, whatever the investor type
scoreByInvestorTypeNoTone(item, investorType) ==
    Max(0, RECENCY_MAX - Max(1, item.age))

\* scoreByInvestorType, lines 183-224
scoreByInvestorType(item, investorType) ==
    LET ageMinutes == Max(1, item.age)
        recency == Max(0, RECENCY_MAX - ageMinutes)
    IN  CASE investorType \in {"trader", "day_trader", "short_term"} ->
                recency + (IF item.st THEN ST_BONUS ELSE 0)
          [] investorType \in {"long_term", "investor"} ->
                recency + (IF item.lt THEN LT_BONUS ELSE 0)
                        - (IF item.st THEN LT_PENALTY ELSE 0)
          [] OTHER -> recency

\* scoreByCoins, lines 226-235
RECURSIVE scoreByCoins(_, _)
scoreByCoins(item, selectedSymbols) ==
    IF selectedSymbols = <<>> THEN 0
    ELSE LET sym == Head(selectedSymbols) IN
         (IF sym \in item.syms THEN COIN_BONUS ELSE 0)
             + (IF sym \in item.caps THEN COIN_CAPS_BONUS ELSE 0)
             + scoreByCoins(item, Tail(selectedSymbols))

newsScore(item, prefs) ==
    scoreByCoins(item, toCpSymbols(prefs.assets))
        + scoreByInvestorType(item, prefs.investorType)

\* Array.prototype.sort with (a, b) => b.score - a.score is stable
RECURSIVE InsertByScore(_, _, _)
InsertByScore(sorted, item, prefs) ==
    IF sorted = <<>> THEN <<item>>
    ELSE IF newsScore(Head(sorted), prefs) >= newsScore(item, prefs)
    THEN <<Head(sorted)>> \o InsertByScore(Tail(sorted), item, prefs)
    ELSE <<item>> \o sorted

RECURSIVE SortByScore(_, _, _)
SortByScore(items, acc, prefs) ==
    IF items = <<>> THEN acc
    ELSE SortByScore(Tail(items), InsertByScore(acc, Head(items), prefs), prefs)

\* personalizeNews, lines 237-251
personalizeNews(items, prefs) ==
    LET scored == SortByScore(items, <<>>, prefs)
    IN  SubSeq(scored, 1, Min(Len(scored), NEWS_LIMIT))

\* content taken from FALLBACK_NEWS, in whatever order
IsFallbackContent(items) ==
    \A i \in DOMAIN items : \E j \in DOMAIN FALLBACK_NEWS : items[i].id = FALLBACK_NEWS[j].id
IsGenuine(items) == items # <<>> /\ ~IsFallbackContent(items)

\* USER_NEWS.get(id): the position of the user's row, 0 when absent
NewsIndex(store, u) ==
    IF \E i \in DOMAIN store : store[i].id = u
    THEN CHOOSE i \in DOMAIN store : store[i].id = u
    ELSE 0

\* faulty variant: an absent user is answered with an empty list
getUserNewsNoFallback(store, u) ==
    IF NewsIndex(store, u) # 0
    THEN store[NewsIndex(store, u)]
    ELSE [id |-> u, items |-> <<>>, updatedAt |-> 0, lastRefreshAt |-> 0]

\* getUserNews, lines 128-132
getUserNews(store, u) ==
    IF NewsIndex(store, u) # 0
    THEN store[NewsIndex(store, u)]
    ELSE [id |-> u, items |-> FALLBACK_NEWS, updatedAt |-> 0, lastRefreshAt |-> 0]

\* faulty variant: the row written last is the one evicted
setUserNewsEvictNewest(store, u, items, t) ==
    LET row == [id |-> u, items |-> IF items # <<>> THEN items ELSE FALLBACK_NEWS,
                updatedAt |-> t, lastRefreshAt |-> t]
        at == NewsIndex(store, u)
    IN  IF at # 0 THEN [store EXCEPT ![at] = row]
        ELSE IF Len(store) >= NEWS_MAX_USERS /\ Len(store) > 0
        THEN Append(SubSeq(store, 1, Len(store) - 1), row)
        ELSE Append(store, row)

\* setUserNews, lines 134-155: when a new user would exceed the capacity the
\* row with the smallest updatedAt goes (the first such in insertion order)
setUserNews(store, u, items, t) ==
    LET row == [id |-> u, items |-> IF items # <<>> THEN items ELSE FALLBACK_NEWS,
                updatedAt |-> t, lastRefreshAt |-> t]
        at == NewsIndex(store, u)
        oldest == CHOOSE i \in DOMAIN store :
                      \A j \in DOMAIN store :
                          \/ store[i].updatedAt < store[j].updatedAt
                          \/ (store[i].updatedAt = store[j].updatedAt /\ i <= j)
        kept == IF Len(store) >= NEWS_MAX_USERS /\ Len(store) > 0
                THEN SubSeq(store, 1, oldest - 1)
                         \o SubSeq(store, oldest + 1, Len(store))
                ELSE store
    IN  IF at # 0
        THEN [store EXCEPT ![at] = row]
        ELSE Append(kept, row)

\* what getPreferencesByUser may do for the refresh route: reject, or
\* resolve with what the user has stored: u2 has no row, the others hold
\* bitcoin as long-term investors (the investor types of the model are "",
\* "long_term" and "trader")
NoPrefs == [failed |-> FALSE, assets |-> <<>>, investorType |-> ""]
NewsPrefOutcomes(u) ==
    {[failed |-> TRUE, assets |-> <<>>, investorType |-> ""],
     IF u = "u2" THEN NoPrefs
     ELSE [failed |-> FALSE, assets |-> <<"bitcoin">>, investorType |-> "long_term"]}

\* The table when the run begins: empty, or as two earlier refreshes (of u1
\* and of u2, more than the refresh interval ago) have left it; the row
\* inserted first is the older one, or the newer one when u1 refreshed
\* again after u2.
NewsRow(u, items, t) == [id |-> u, items |-> items, updatedAt |-> t, lastRefreshAt |-> t]
NewsTables ==
    {<<>>,
     <<NewsRow("u1", <<ItemEtf, ItemPump>>, NewsBootMs - 2 * NEWS_REFRESH_MIN_INTERVAL_MS),
       NewsRow("u2", FALLBACK_NEWS, NewsBootMs - NEWS_REFRESH_MIN_INTERVAL_MS)>>,
     <<NewsRow("u1", <<ItemEtf, ItemPump>>, NewsBootMs - NEWS_REFRESH_MIN_INTERVAL_MS),
       NewsRow("u2", <<ItemPump, ItemEtf>>, NewsBootMs - 2 * NEWS_REFRESH_MIN_INTERVAL_MS)>>}

NewsIdle ==
    [pc |-> "idle", user |-> "", kind |-> "none", at |-> 0, accepted |-> FALSE,
     prefs |-> NoPrefs, key |-> <<>>, out |-> <<>>, wake |-> 0,
     status |-> 0, retryAfterMs |-> 0, items |-> <<>>, updatedAt |-> 0,
     upstream |-> "none", had |-> <<>>, wrote |-> FALSE]

\* a request that has its answer leaves before anything else runs
NewsQuiet == \A r \in NewsSlots : newsCalls[r].pc # "sent"

NewsInit ==
    /\ now = NewsBootMs
    /\ tokens = FULL
    /\ lastRefill = 0
    /\ lastTry = NoTry
    /\ markAt = -1
    /\ grants = 0
    /\ waiter = NoWaiter
    /\ PRICE_CACHE = <<>>
    /\ INFLIGHT = <<>>
    /\ SCHEDULED = {}
    /\ timers = <<>>
    /\ loaders = {}
    /\ callers = <<>>
    /\ USER_AI_CACHE = <<>>
    /\ AI_INFLIGHT_PER_USER = <<>>
    /\ computes = {}
    /\ aiCalls = <<>>
    /\ dash = <<>>
    /\ backoff = <<>>
    /\ USER_NEWS \in NewsTables
    /\ NEWS_CACHE = <<>>
    /\ newsCalls = [r \in NewsSlots |-> NewsIdle]
    /\ newsFetches = {}
    /\ refreshes = 0
    /\ aiLog = <<>>
    /\ clock = <<>>
    /\ MoreOff

newsFrame ==
    <<bucketVars, observerVars, priceVars, aiVars, dash, backoff, aiLog, clock,
      moreVars>>

\* getNewsCachedHandler, lines 257-261, and the news section of
\* getDashboard, line 982: a lookup and nothing else
NewsRead(r, u) ==
    LET data == getUserNews(USER_NEWS, u) IN
    /\ NewsQuiet
    /\ \A q \in NewsSlots : newsCalls[q].pc = "idle" => r <= q
    /\ newsCalls[r].pc = "idle"
    /\ newsCalls' = [newsCalls EXCEPT ![r] =
          [NewsIdle EXCEPT !.pc = "sent", !.user = u, !.kind = "read",
                           !.at = now, !.status = HTTP_SENT_OK,
                           !.items = data.items, !.updatedAt = data.updatedAt]]
    /\ UNCHANGED <<now, USER_NEWS, NEWS_CACHE, newsFetches, refreshes, newsFrame>>

\* refreshNewsHandler, lines 264-284: the rate limit per user, then the
\* await of getPreferencesByUser
\* faulty variant: the time elapsed since the last refresh is sent
retryAfterElapsed(existing, t) == t - existing.lastRefreshAt

\* line 273: the time left of the refresh interval
retryAfter(existing, t) ==
    NEWS_REFRESH_MIN_INTERVAL_MS - (t - existing.lastRefreshAt)

NewsRefresh(r, u) ==
    LET existing == getUserNews(USER_NEWS, u)
        tooSoon == now - existing.lastRefreshAt < NEWS_REFRESH_MIN_INTERVAL_MS
        me == [NewsIdle EXCEPT !.user = u, !.kind = "refresh", !.at = now]
    IN
    /\ NewsQuiet
    /\ \A q \in NewsSlots : newsCalls[q].pc = "idle" => r <= q
    /\ newsCalls[r].pc = "idle"
    /\ tooSoon \/ refreshes < MaxRefreshes
    /\ newsCalls' = [newsCalls EXCEPT ![r] =
          IF tooSoon
          THEN [me EXCEPT !.pc = "sent", !.status = HTTP_TOO_SOON,
                          !.retryAfterMs = retryAfter(existing, now),
                          !.items = existing.items,
                          !.updatedAt = existing.updatedAt]
          ELSE [me EXCEPT !.pc = "prefs", !.accepted = TRUE]]
    /\ refreshes' = IF tooSoon THEN refreshes ELSE refreshes + 1
    /\ UNCHANGED <<now, USER_NEWS, NEWS_CACHE, newsFetches, newsFrame>>

\* lines 315-319: the fetched items are personalized and stored, and the
\* stored row is sent
NewsStored(c, items) == setUserNews(USER_NEWS, c.user, personalizeNews(items, c.prefs), now)
NewsAnswer(c, items, upstream) ==
    LET data == getUserNews(NewsStored(c, items), c.user) IN
    [c EXCEPT !.pc = "sent", !.status = HTTP_SENT_OK, !.items = data.items,
              !.updatedAt = data.updatedAt, !.upstream = upstream,
              !.had = getUserNews(USER_NEWS, c.user).items, !.wrote = TRUE]

\* the preferences arrive, lines 285-313: the catch block on a rejection,
\* otherwise fetchNews for the user's currencies (lines 86-98), which
\* answers from NEWS_CACHE or sends the page request
NewsPrefs(r, pref) ==
    LET c == [newsCalls[r] EXCEPT !.prefs = pref,
                                  !.key = newsKey(toCpSymbols(pref.assets))]
        hit == c.key \in DOMAIN NEWS_CACHE
                   /\ now - NEWS_CACHE[c.key].ts < NEWS_TTL_MS
        data == getUserNews(USER_NEWS, c.user)
    IN
    /\ NewsQuiet
    /\ newsCalls[r].pc = "prefs"
    /\ IF pref.failed
       THEN /\ newsCalls' = [newsCalls EXCEPT ![r] =
                  [c EXCEPT !.pc = "sent", !.status = HTTP_SENT_OK,
                            !.items = data.items, !.updatedAt = data.updatedAt]]
            /\ UNCHANGED <<USER_NEWS, newsFetches>>
       ELSE IF hit
       THEN /\ USER_NEWS' = NewsStored(c, NEWS_CACHE[c.key].items)
            /\ newsCalls' = [newsCalls EXCEPT ![r] =
                  NewsAnswer(c, NEWS_CACHE[c.key].items, "cached")]
            /\ UNCHANGED newsFetches
       ELSE /\ newsFetches' = newsFetches \cup {[call |-> r, key |-> c.key]}
            /\ newsCalls' = [newsCalls EXCEPT ![r] = [c EXCEPT !.pc = "fetch"]]
            /\ UNCHANGED USER_NEWS
    /\ UNCHANGED <<now, NEWS_CACHE, refreshes, newsFrame>>

\* the upstream answers the page request, lines 98-119: an error ends the
\* loop and fetchNews returns (and caches) FALLBACK_NEWS; a page is kept and
\* the soft throttle of line 110 is awaited
NewsUpstream(f, resp) ==
    LET r == f.call
        c == newsCalls[r]
    IN
    /\ NewsQuiet
    /\ f \in newsFetches
    /\ newsFetches' = newsFetches \ {f}
    /\ IF ~resp.ok
       THEN /\ NEWS_CACHE' = MapSet(NEWS_CACHE, c.key, [ts |-> now, items |-> FALLBACK_NEWS])
            /\ USER_NEWS' = NewsStored(c, FALLBACK_NEWS)
            /\ newsCalls' = [newsCalls EXCEPT ![r] =
                  NewsAnswer(c, FALLBACK_NEWS, "failed")]
       ELSE /\ newsCalls' = [newsCalls EXCEPT ![r] =
                  [c EXCEPT !.pc = "throttle", !.out = resp.results,
                            !.wake = now + NEWS_THROTTLE_MS,
                            !.upstream = IF resp.results = <<>> THEN "empty" ELSE "ok"]]
            /\ UNCHANGED <<NEWS_CACHE, USER_NEWS>>
    /\ UNCHANGED <<now, refreshes, newsFrame>>

\* the throttle timer fires, lines 110-119 and 315-319
NewsThrottleDone(r) ==
    LET c == newsCalls[r]
        items == IF c.out # <<>> THEN c.out ELSE FALLBACK_NEWS
    IN
    /\ NewsQuiet
    /\ c.pc = "throttle"
    /\ c.wake <= now
    /\ NEWS_CACHE' = MapSet(NEWS_CACHE, c.key, [ts |-> now, items |-> items])
    /\ USER_NEWS' = NewsStored(c, items)
    /\ newsCalls' = [newsCalls EXCEPT ![r] = NewsAnswer(c, items, c.upstream)]
    /\ UNCHANGED <<now, newsFetches, refreshes, newsFrame>>

\* the answered request is over
NewsLeave(r) ==
    /\ newsCalls[r].pc = "sent"
    /\ newsCalls' = [newsCalls EXCEPT ![r] = NewsIdle]
    /\ UNCHANGED <<now, USER_NEWS, NEWS_CACHE, newsFetches, refreshes, newsFrame>>

\* the clock advances to the next instant something is due: a throttle
\* timer, the end of a user's refresh interval or the expiry of a cache entry
NewsWakeTimes ==
    {newsCalls[r].wake : r \in {q \in NewsSlots : newsCalls[q].pc = "throttle"}}
        \cup {USER_NEWS[i].lastRefreshAt + NEWS_REFRESH_MIN_INTERVAL_MS : i \in DOMAIN USER_NEWS}
        \cup {NEWS_CACHE[k].ts + NEWS_TTL_MS : k \in DOMAIN NEWS_CACHE}

NewsTick ==
    /\ NewsQuiet
    /\ \E t \in NewsWakeTimes : t > now /\ t <= NewsMaxTime /\ now' = t
    /\ UNCHANGED <<newsVars, newsFrame>>

NewsNext ==
    \/ \E r \in NewsSlots, u \in NewsUsers : NewsRead(r, u)
    \/ \E r \in NewsSlots, u \in NewsUsers : NewsRefresh(r, u)
    \/ \E r \in NewsSlots : \E pref \in NewsPrefOutcomes(newsCalls[r].user) :
          NewsPrefs(r, pref)
    \/ \E f \in newsFetches, resp \in NewsResponses : NewsUpstream(f, resp)
    \/ \E r \in NewsSlots : NewsThrottleDone(r)
    \/ \E r \in NewsSlots : NewsLeave(r)
    \/ NewsTick

SpecNews == NewsInit /\ [][NewsNext]_vars

(***************************************************************************)
(* Properties of the sticky news.                                          *)
(***************************************************************************)
LetThrough(r) == newsCalls[r].kind = "refresh" /\ newsCalls[r].accepted
NewsIds(store) == {store[i].id : i \in DOMAIN store}

\* C13: of two refresh requests of one user that arrive within the refresh
\* interval of each other, only one gets past the rate limit; the other is
\* answered tooSoon (and so starts no upstream fetch).
C13_SecondIsThrottled ==
    \A r, q \in NewsSlots :
        (r # q /\ LetThrough(r) /\ LetThrough(q)
            /\ newsCalls[r].user = newsCalls[q].user
            /\ newsCalls[r].at <= newsCalls[q].at)
        => newsCalls[q].at - newsCalls[r].at >= NEWS_REFRESH_MIN_INTERVAL_MS

\* C14: a read of the sticky news starts no upstream fetch and changes
\* neither the per-user table nor the fetch cache; it answers with the
\* user's row, and for a user without a row with FALLBACK_NEWS and
\* updatedAt 0.
NewsReadStep(r) == newsCalls[r].pc = "idle" /\ newsCalls'[r].kind = "read"
C14_ReadsChangeNothing ==
    [][\A r \in NewsSlots :
          NewsReadStep(r) =>
              /\ USER_NEWS' = USER_NEWS
              /\ NEWS_CACHE' = NEWS_CACHE
              /\ newsFetches' = newsFetches
              /\ LET u == newsCalls'[r].user
                     at == NewsIndex(USER_NEWS, u)
                 IN  IF at = 0
                     THEN /\ newsCalls'[r].items = FALLBACK_NEWS
                          /\ newsCalls'[r].updatedAt = 0
                     ELSE /\ newsCalls'[r].items = USER_NEWS[at].items
                          /\ newsCalls'[r].updatedAt = USER_NEWS[at].updatedAt]_vars

C14_Witness ==
    \E r \in NewsSlots :
        /\ newsCalls[r].pc = "sent"
        /\ newsCalls[r].kind = "read"
        /\ NewsIndex(USER_NEWS, newsCalls[r].user) = 0
        /\ newsCalls[r].items = FALLBACK_NEWS
        /\ USER_NEWS # <<>>

\* C15: a refresh whose upstream fetch failed or returned nothing does not
\* write fallback content over a genuine list the user had stored.
C15_FailedRefreshKeepsNews ==
    \A r \in NewsSlots :
        (newsCalls[r].upstream \in {"failed", "empty"} /\ newsCalls[r].wrote
            /\ IsGenuine(newsCalls[r].had))
        => ~IsFallbackContent(getUserNews(USER_NEWS, newsCalls[r].user).items)

\* C16: the per-user news table never holds more than NEWS_MAX_USERS rows;
\* a write for a user without a row at full size removes exactly one row,
\* one with the smallest updatedAt, and any other step removes none.
C16_NewsLruBound ==
    /\ [](Len(USER_NEWS) <= NEWS_MAX_USERS)
    /\ [][LET old == NewsIds(USER_NEWS)
              new == NewsIds(USER_NEWS')
          IN  IF new \ old = {}
              THEN new = old
              ELSE /\ Cardinality(new \ old) = 1
                   /\ IF Len(USER_NEWS) >= NEWS_MAX_USERS
                      THEN \E i \in DOMAIN USER_NEWS :
                              /\ old \ new = {USER_NEWS[i].id}
                              /\ \A j \in DOMAIN USER_NEWS :
                                    USER_NEWS[i].updatedAt <= USER_NEWS[j].updatedAt
                      ELSE old \subseteq new]_vars

\* a row that was not the first one inserted has been evicted as the oldest
C16_Witness ==
    /\ Len(USER_NEWS) = NEWS_MAX_USERS
    /\ "u3" \in NewsIds(USER_NEWS)
    /\ "u1" \in NewsIds(USER_NEWS)
    /\ "u2" \notin NewsIds(USER_NEWS)

(***************************************************************************)
(* getDailyAiInsight on its own, over a day: calls of two users, the       *)
(* settling of fetchAiInsight, and a clock that crosses the cutoff hour.   *)
(***************************************************************************)
\* bounds: the step and the end of the clock of these runs
AiTickMs == 43200000
AiMaxTime == 90000000

NotServed == [has |-> FALSE, key |-> 0, item |-> NoItem]
NoCall == [key |-> 0, path |-> "none", stale |-> FALSE, prior |-> NotServed]

AiInit ==
    /\ now = 0
    /\ tokens = FULL
    /\ lastRefill = 0
    /\ lastTry = NoTry
    /\ markAt = -1
    /\ grants = 0
    /\ waiter = NoWaiter
    /\ PRICE_CACHE = <<>>
    /\ INFLIGHT = <<>>
    /\ SCHEDULED = {}
    /\ timers = <<>>
    /\ loaders = {}
    /\ callers = <<>>
    /\ USER_AI_CACHE = <<>>
    /\ AI_INFLIGHT_PER_USER = <<>>
    /\ computes = {}
    /\ aiCalls = [r \in Callers |-> AiIdle]
    /\ dash = <<>>
    /\ backoff = <<>>
    /\ USER_NEWS = <<>>
    /\ NEWS_CACHE = <<>>
    /\ newsCalls = <<>>
    /\ newsFetches = {}
    /\ refreshes = 0
    /\ aiLog = [served |-> [u \in Users |-> NotServed],
                calls |-> [r \in Callers |-> NoCall]]
    /\ clock = <<>>
    /\ MoreOff

aiFrame ==
    <<bucketVars, observerVars, priceVars, dash, backoff, newsVars, clock,
      moreVars>>

\* a call that has its item returns before anything else runs
AiQuiet == \A r \in Callers : aiCalls[r].pc # "done"

\* some request calls getDailyAiInsight for user u; the observer notes the
\* period key of the call, the path it took, whether it found a record of
\* another period with no compute in flight, and what the user's most
\* recent call that had returned by then was given
AiCall(r, u) ==
    LET key == currentPeriodKey(now)
        at == AiIndex(USER_AI_CACHE, u)
        path == IF aiCalls'[r].pc = "done" THEN "cached"
                ELSE IF u \in DOMAIN AI_INFLIGHT_PER_USER THEN "joined"
                ELSE "started"
        stale == at # 0 /\ USER_AI_CACHE[at].key # key
                     /\ u \notin DOMAIN AI_INFLIGHT_PER_USER
    IN
    /\ AiQuiet
    /\ \A q \in Callers : aiCalls[q].pc = "idle" => r <= q
    /\ getDailyAiInsight(r, u)
    /\ aiLog' = [aiLog EXCEPT !.calls[r] =
                    [key |-> key, path |-> path, stale |-> stale,
                     prior |-> aiLog.served[u]]]
    /\ UNCHANGED <<now, aiFrame>>

\* the caller has its item
AiReturn(r) ==
    /\ aiCalls[r].pc = "done"
    /\ aiLog' = [aiLog EXCEPT
          !.served[aiCalls[r].user] =
              [has |-> TRUE, key |-> aiLog.calls[r].key, item |-> aiCalls[r].item],
          !.calls[r] = NoCall]
    /\ aiCalls' = [aiCalls EXCEPT ![r] = AiIdle]
    /\ UNCHANGED <<now, USER_AI_CACHE, AI_INFLIGHT_PER_USER, computes, aiFrame>>

AiTick ==
    /\ AiQuiet
    /\ now + AiTickMs <= AiMaxTime
    /\ now' = now + AiTickMs
    /\ UNCHANGED <<aiVars, aiLog, aiFrame>>

AiNext ==
    \/ \E r \in Callers, u \in Users : AiCall(r, u)
    \/ \E p \in computes : \E o \in DashAiOutcomes(now), fb \in DashFallbacks :
          AiSettles(p, o, fb)
    \/ \E r \in Callers : AiReturn(r)
    \/ AiTick

SpecAi == AiInit /\ [][AiNext]_vars

(***************************************************************************)
(* Properties of getDailyAiInsight.                                        *)
(***************************************************************************)
\* C17: a call of a user that follows a returned call of the same user in
\* the same period is given the identical item and invokes no compute.
C17_SamePeriodSameItem ==
    \A r \in Callers :
        (aiCalls[r].pc = "done" /\ aiLog.calls[r].prior.has
            /\ aiLog.calls[r].prior.key = aiLog.calls[r].key)
        => (aiCalls[r].item = aiLog.calls[r].prior.item
               /\ aiLog.calls[r].path # "started")

C19_OneComputePerUser ==
    /\ \A u \in Users : Cardinality({p \in computes : p.user = u}) <= 1
    /\ \A r \in Callers :
          aiCalls[r].pc = "waiting" =>
              \E p \in computes : p.id = aiCalls[r].prom /\ p.user = aiCalls[r].user
    /\ \A r, q \in Callers :
          (r # q /\ aiCalls[r].prom # 0 /\ aiCalls[r].prom = aiCalls[q].prom)
          => /\ aiCalls[r].user = aiCalls[q].user
             /\ ~(aiLog.calls[r].path = "started" /\ aiLog.calls[q].path = "started")
             /\ (aiCalls[r].pc = "done" /\ aiCalls[q].pc = "done")
                    => aiCalls[r].item = aiCalls[q].item

C19_Witness ==
    \E r, q \in Callers :
        /\ aiLog.calls[r].path = "started"
        /\ aiLog.calls[q].path = "joined"
        /\ aiCalls[r].prom = aiCalls[q].prom
        /\ aiCalls[r].pc = "done"
        /\ aiCalls[q].pc = "done"

(***************************************************************************)
(* currentPeriodKey as a function of the instant: a clock that runs over   *)
(* three local days, in a zone with or without a daylight-saving           *)
(* transition on the second of them.                                       *)
(***************************************************************************)
DstLocalHour == 2

\* bounds: the local hour at which the clock of these runs starts, its step
\* and its end
PeriodStartHour == 12
PeriodStepMs == 1800000
PeriodMaxMs == 259200000

\* no transition; clocks forward at 02:00 of the next local day (a day of 23
\* hours); clocks back at 02:00 of the next local day (a day of 25 hours)
PeriodBase == PeriodStartHour * MS_PER_HOUR
DstAt == MS_PER_DAY + DstLocalHour * MS_PER_HOUR - PeriodBase
Zones ==
    {Zone(PeriodBase, 0, 0), Zone(PeriodBase, DstAt, MS_PER_HOUR),
     Zone(PeriodBase, DstAt, 0 - MS_PER_HOUR)}

ClockAt(z, h24, t, was) ==
    [zone |-> z, h24 |-> h24, t |-> t, hour |-> HourIn(z, h24, t),
     key |-> PeriodKeyIn(z, h24, t), was |-> was]

PeriodInit ==
    /\ now = 0
    /\ tokens = FULL
    /\ lastRefill = 0
    /\ lastTry = NoTry
    /\ markAt = -1
    /\ grants = 0
    /\ waiter = NoWaiter
    /\ PRICE_CACHE = <<>>
    /\ INFLIGHT = <<>>
    /\ SCHEDULED = {}
    /\ timers = <<>>
    /\ loaders = {}
    /\ callers = <<>>
    /\ USER_AI_CACHE = <<>>
    /\ AI_INFLIGHT_PER_USER = <<>>
    /\ computes = {}
    /\ aiCalls = <<>>
    /\ dash = <<>>
    /\ backoff = <<>>
    /\ USER_NEWS = <<>>
    /\ NEWS_CACHE = <<>>
    /\ newsCalls = <<>>
    /\ newsFetches = {}
    /\ refreshes = 0
    /\ aiLog = <<>>
    /\ MoreOff
    /\ \E z \in Zones, h24 \in BOOLEAN :
          clock = ClockAt(z, h24, 0, PeriodKeyIn(z, h24, 0))

\* time passes and currentPeriodKey() is called again
PeriodStep ==
    /\ clock.t + PeriodStepMs <= PeriodMaxMs
    /\ clock' = ClockAt(clock.zone, clock.h24, clock.t + PeriodStepMs, clock.key)
    /\ UNCHANGED <<now, bucketVars, observerVars, priceVars, aiVars, dash,
                   backoff, newsVars, aiLog, moreVars>>

PeriodNext == PeriodStep

SpecPeriod == PeriodInit /\ [][PeriodNext]_vars

\* C20: at every instant the period key is the local calendar day when the
\* local hour has reached the cutoff hour and the day before it otherwise,
\* also around a day of 23 or 25 hours, and it never moves back to an
\* earlier day as time advances.
C20_PeriodKeyByLocalDay ==
    /\ clock.key = IF LocalHour(clock.zone, clock.t) < AI_INSIGHT_CUTOFF_HOUR
                   THEN LocalDay(clock.zone, clock.t) - 1
                   ELSE LocalDay(clock.zone, clock.t)
    /\ clock.key >= clock.was

(***************************************************************************)
(* Memes: fetchRedditMemesFeed with its cache of two minutes, and the      *)
(* per-user picker getRandomMemeForUser with its window of recent ids.     *)
(***************************************************************************)
MEME_CACHE_TTL_MS == 120000
USER_RECENT_MAX == 80
MEME_TOP_SLICE == 40
MEME_PICK_TOP == 8
MEME_ENTROPY == 3
MEME_TICKER_BONUS == 12
MEME_SUB_BONUS == 25
MEME_TONE_BONUS == 15
MEME_TONE_PENALTY == 5

\* bounds: concurrent requests, requests in a run, and the end of the clock
NumMemeCalls == 2
MaxMemeStarts == 3
MemeMaxTime == 400000

MemeUsers == {"u1", "u2", "u3"}
MemeSlots == 1..NumMemeCalls

\* A meme, as far as the picker looks at it: its id, the coin whose tickers
\* the title holds and how many of them, whether the permalink is in one of
\* that coin's subreddits, and whether the title matches LT / ST.
MemeItem(id, coin, tk, sub, lt, st) ==
    [id |-> id, coin |-> coin, tk |-> tk, sub |-> sub, lt |-> lt, st |-> st]

\* "When BTC dumps 2% and CT panics", "Me refreshing prices every 5 seconds"
STATIC_MEMES ==
    <<MemeItem("meme-2", "bitcoin", 1, FALSE, FALSE, TRUE),
      MemeItem("meme-1", "", 0, FALSE, FALSE, FALSE)>>

\* two posts of r/BitcoinMemes: "HODL bitcoin, BTC adoption", "Got rekt"
MemeHodl == MemeItem("r1", "bitcoin", 2, TRUE, TRUE, FALSE)
MemeRekt == MemeItem("r2", "", 0, TRUE, FALSE, TRUE)

\* what the sources give together after dedupe: nothing (every source
\* failed, or no post has an image), or the two posts
MemeFeeds == {<<>>, <<MemeHodl, MemeRekt>>}

NoMeme == MemeItem("", "", 0, FALSE, FALSE, FALSE)

\* parsedPrefs || {} of the route and of getDashboard
MemePrefs(u) ==
    IF u = "u1" THEN [failed |-> FALSE, assets |-> <<"bitcoin">>, investorType |-> "long_term"]
    ELSE NoPrefs

\* _scoreMemeForUser without its entropy term
RECURSIVE memeCoinScore(_, _)
memeCoinScore(m, assets) ==
    IF assets = <<>> THEN 0
    ELSE (IF Head(assets) = m.coin
          THEN MEME_TICKER_BONUS * m.tk + (IF m.sub THEN MEME_SUB_BONUS ELSE 0)
          ELSE 0) + memeCoinScore(m, Tail(assets))

scoreMemeForUser(m, prefs) ==
    memeCoinScore(m, prefs.assets)
        + (IF prefs.investorType \in {"trader", "day_trader", "short_term"}
           THEN (IF m.st THEN MEME_TONE_BONUS ELSE 0)
           ELSE IF prefs.investorType \in {"long_term", "investor"}
           THEN (IF m.lt THEN MEME_TONE_BONUS ELSE 0)
                    - (IF m.st THEN MEME_TONE_PENALTY ELSE 0)
           ELSE 0)

\* The items that can come out of the pick. The candidates are the items of
\* the feed whose id is not in the window; sorted by score plus an entropy
\* in [0, MEME_ENTROPY), one of the first MEME_PICK_TOP of the first
\* MEME_TOP_SLICE is drawn: an item can be among them when fewer than that
\* many candidates beat it whatever the entropy. With no candidate left the
\* whole feed is the pool, every score is 0 and the sort keeps the feed's
\* order.
MemePickable(feed, recents, prefs) ==
    LET cand == SelectSeq(feed, LAMBDA m : m.id \notin recents)
        lim(n) == Min(MEME_PICK_TOP, Min(MEME_TOP_SLICE, n))
        ahead(i) == {j \in 1..Len(cand) :
                        scoreMemeForUser(cand[j], prefs)
                            >= scoreMemeForUser(cand[i], prefs) + MEME_ENTROPY}
    IN  IF Len(cand) > 0
        THEN {cand[i] : i \in {k \in 1..Len(cand) :
                                  Cardinality(ahead(k)) < lim(Len(cand))}}
        ELSE {feed[i] : i \in 1..lim(Len(feed))}

\* _getUserRecents: the user's entry, created empty when there is none
getUserRecents(table, u) ==
    IF u \in DOMAIN table THEN table ELSE MapSet(table, u, <<>>)

\* the last n elements of a queue
LastOf(q, n) == IF Len(q) > n THEN SubSeq(q, Len(q) - n + 1, Len(q)) ELSE q

\* faulty variant: the id is not recorded
markUserRecentNever(table, u, id) == getUserRecents(table, u)

\* _markUserRecent
markUserRecent(table, u, id) ==
    LET t == getUserRecents(table, u)
    IN  IF id \in Range(t[u]) THEN t
        ELSE [t EXCEPT ![u] = LastOf(Append(t[u], id), USER_RECENT_MAX)]

MemeIdle == [pc |-> "idle", user |-> "", at |-> 0, out |-> NoMeme, prev |-> "",
             feed |-> <<>>]

\* a call that has its item leaves before anything else runs
MemeQuiet == \A r \in MemeSlots : memeCalls[r].pc # "done"

MemeInit ==
    /\ now = NewsBootMs
    /\ tokens = FULL
    /\ lastRefill = 0
    /\ lastTry = NoTry
    /\ markAt = -1
    /\ grants = 0
    /\ waiter = NoWaiter
    /\ PRICE_CACHE = <<>>
    /\ INFLIGHT = <<>>
    /\ SCHEDULED = {}
    /\ timers = <<>>
    /\ loaders = {}
    /\ callers = <<>>
    /\ USER_AI_CACHE = <<>>
    /\ AI_INFLIGHT_PER_USER = <<>>
    /\ computes = {}
    /\ aiCalls = <<>>
    /\ dash = <<>>
    /\ backoff = <<>>
    /\ USER_NEWS = <<>>
    /\ NEWS_CACHE = <<>>
    /\ newsCalls = <<>>
    /\ newsFetches = {}
    /\ refreshes = 0
    /\ aiLog = <<>>
    /\ clock = <<>>
    /\ MEME_CACHE = <<>>
    /\ MEME_CACHE_TS = 0
    /\ USER_MEME_RECENTS = <<>>
    /\ memeCalls = [r \in MemeSlots |-> MemeIdle]
    /\ memeLoads = {}
    /\ memeLast = [u \in MemeUsers |-> ""]
    /\ memeStarts = 0
    /\ scoring = <<>>
    /\ FEEDBACK = <<>>
    /\ fbCall = <<>>
    /\ refreshLog = <<>>

memeFrame ==
    <<bucketVars, observerVars, priceVars, aiVars, dash, backoff, newsVars,
      aiLog, clock, scoring, fbVars, refreshLog>>

\* getRandomMemeForUser from the feed on: the pick, and the window
MemePick(r, u, feed) ==
    /\ \E m \in MemePickable(feed, Range(getUserRecents(USER_MEME_RECENTS, u)[u]),
                             MemePrefs(u)) :
          /\ USER_MEME_RECENTS' = markUserRecent(USER_MEME_RECENTS, u, m.id)
          /\ memeCalls' = [memeCalls EXCEPT ![r] =
                 [pc |-> "done", user |-> u, at |-> now, out |-> m,
                  prev |-> memeLast[u], feed |-> feed]]
          /\ memeLast' = [memeLast EXCEPT ![u] = m.id]

\* fetchRedditMemesFeed serves the cache while it is fresh
MemeFresh == Len(MEME_CACHE) > 0 /\ now - MEME_CACHE_TS < MEME_CACHE_TTL_MS

\* a request calls getRandomMemeForUser: with a fresh cache the feed is
\* there at once and the pick follows; otherwise the build of the feed begins
MemeCall(r, u) ==
    /\ MemeQuiet
    /\ memeCalls[r].pc = "idle"
    /\ memeStarts < MaxMemeStarts
    /\ memeStarts' = memeStarts + 1
    /\ IF MemeFresh
       THEN /\ MemePick(r, u, MEME_CACHE)
            /\ UNCHANGED memeLoads
       ELSE /\ memeCalls' = [memeCalls EXCEPT ![r] =
                   [MemeIdle EXCEPT !.pc = "feed", !.user = u, !.at = now]]
            /\ memeLoads' = memeLoads \cup {[call |-> r, at |-> now]}
            /\ UNCHANGED <<USER_MEME_RECENTS, memeLast>>
    /\ UNCHANGED <<now, MEME_CACHE, MEME_CACHE_TS, memeFrame>>

\* the sources have answered: the feed (the static memes when nothing came)
\* is stored with the time at which the build began, and the pick follows
MemeLoaded(l, got) ==
    /\ MemeQuiet
    /\ l \in memeLoads
    /\ LET feed == IF Len(got) = 0 THEN STATIC_MEMES ELSE got
       IN  /\ MEME_CACHE' = feed
           /\ MEME_CACHE_TS' = l.at
           /\ MemePick(l.call, memeCalls[l.call].user, feed)
    /\ memeLoads' = memeLoads \ {l}
    /\ UNCHANGED <<now, memeStarts, memeFrame>>

MemeLeave(r) ==
    /\ memeCalls[r].pc = "done"
    /\ memeCalls' = [memeCalls EXCEPT ![r] = MemeIdle]
    /\ UNCHANGED <<now, MEME_CACHE, MEME_CACHE_TS, USER_MEME_RECENTS, memeLoads,
                   memeLast, memeStarts, memeFrame>>

\* the clock advances to the expiry of the cached feed
MemeTick ==
    /\ MemeQuiet
    /\ Len(MEME_CACHE) > 0
    /\ now < MEME_CACHE_TS + MEME_CACHE_TTL_MS
    /\ MEME_CACHE_TS + MEME_CACHE_TTL_MS <= MemeMaxTime
    /\ now' = MEME_CACHE_TS + MEME_CACHE_TTL_MS
    /\ UNCHANGED <<memeVars, memeFrame>>

MemeNext ==
    \/ \E r \in MemeSlots, u \in MemeUsers : MemeCall(r, u)
    \/ \E l \in memeLoads, got \in MemeFeeds : MemeLoaded(l, got)
    \/ \E r \in MemeSlots : MemeLeave(r)
    \/ MemeTick

SpecMeme == MemeInit /\ [][MemeNext]_vars

MemeIds(feed) == {feed[i].id : i \in 1..Len(feed)}

\* C21: a call of getRandomMemeForUser over a feed with at least two
\* distinct ids never returns the id that the same user was given by the
\* call before it.
C21_NoImmediateRepeat ==
    \A r \in MemeSlots :
        (/\ memeCalls[r].pc = "done"
         /\ Cardinality(MemeIds(memeCalls[r].feed)) >= 2)
            => memeCalls[r].out.id # memeCalls[r].prev

\* C22: the table of the meme windows never holds more users than the
\* capacity configured for the per-user tables (that of the sticky news
\* table; the source configures none for the memes).
C22_MemeWindowsBounded ==
    Cardinality(DOMAIN USER_MEME_RECENTS) <= NEWS_MAX_USERS

\* C23: at any instant at most one upstream load is in flight for a news
\* query key, and at most one build of the meme feed.
C23_FetchesCoalesce ==
    /\ \A f \in newsFetches, g \in newsFetches : f.key = g.key => f = g
    /\ Cardinality(memeLoads) <= 1

(***************************************************************************)
(* personalizeNews applied to the two items of the ranking scenario, of    *)
(* any age and in either order, for the long-term holder of bitcoin.       *)
(***************************************************************************)
\* bounds: the ages tried are the multiples of AgeStepMin up to
\* MaxAgeSteps of them (in minutes)
AgeStepMin == 15
MaxAgeSteps == 16

NewsAges == {k * AgeStepMin : k \in 0..MaxAgeSteps}
ScoringPrefs ==
    [failed |-> FALSE, assets |-> <<"bitcoin">>, investorType |-> "long_term"]

ScoringInit ==
    /\ now = NewsBootMs
    /\ tokens = FULL
    /\ lastRefill = 0
    /\ lastTry = NoTry
    /\ markAt = -1
    /\ grants = 0
    /\ waiter = NoWaiter
    /\ PRICE_CACHE = <<>>
    /\ INFLIGHT = <<>>
    /\ SCHEDULED = {}
    /\ timers = <<>>
    /\ loaders = {}
    /\ callers = <<>>
    /\ USER_AI_CACHE = <<>>
    /\ AI_INFLIGHT_PER_USER = <<>>
    /\ computes = {}
    /\ aiCalls = <<>>
    /\ dash = <<>>
    /\ backoff = <<>>
    /\ USER_NEWS = <<>>
    /\ NEWS_CACHE = <<>>
    /\ newsCalls = <<>>
    /\ newsFetches = {}
    /\ refreshes = 0
    /\ aiLog = <<>>
    /\ clock = <<>>
    /\ MEME_CACHE = <<>>
    /\ MEME_CACHE_TS = 0
    /\ USER_MEME_RECENTS = <<>>
    /\ memeCalls = <<>>
    /\ memeLoads = {}
    /\ memeLast = <<>>
    /\ memeStarts = 0
    /\ FEEDBACK = <<>>
    /\ fbCall = <<>>
    /\ refreshLog = <<>>
    /\ \E a \in NewsAges, b \in NewsAges, etfFirst \in BOOLEAN :
          LET etf == [ItemEtf EXCEPT !.age = a]
              pump == [ItemPump EXCEPT !.age = b]
          IN  scoring = [items |-> IF etfFirst THEN <<etf, pump>> ELSE <<pump, etf>>,
                         done |-> FALSE, out |-> <<>>]

\* personalizeNews(items, prefs) is called
ScoringApply ==
    /\ ~scoring.done
    /\ scoring' = [scoring EXCEPT !.done = TRUE,
                                  !.out = personalizeNews(scoring.items, ScoringPrefs)]
    /\ UNCHANGED <<now, bucketVars, observerVars, priceVars, aiVars, dash,
                   backoff, newsVars, aiLog, clock, memeVars, fbVars,
                   refreshLog>>

ScoringNext == ScoringApply

SpecScoring == ScoringInit /\ [][ScoringNext]_vars

ScoredEtf == CHOOSE i \in DOMAIN scoring.items : scoring.items[i].id = ItemEtf.id
ScoredPump == CHOOSE i \in DOMAIN scoring.items : scoring.items[i].id = ItemPump.id
EtfRanksFirst ==
    /\ newsScore(scoring.items[ScoredEtf], ScoringPrefs)
           > newsScore(scoring.items[ScoredPump], ScoringPrefs)
    /\ scoring.out[1].id = ItemEtf.id

\* C24 as stated: for the two items, whatever their ages and input order,
\* the ETF item has the strictly higher score and comes out first.
C24_EtfAlwaysFirst == scoring.done => EtfRanksFirst

\* by how much the tone and coin terms favour the ETF item
ETF_MARGIN == LT_BONUS + LT_PENALTY - (COIN_BONUS + COIN_CAPS_BONUS)

\* C24 amended: the ETF item has the strictly higher score and comes out
\* first, whatever the input order, when it is less than ETF_MARGIN minutes
\* older than the other item (in particular when both have the same or no
\* published_at).
C24_EtfFirstWhenNotMuchOlder ==
    (/\ scoring.done
     /\ scoring.items[ScoredEtf].age - scoring.items[ScoredPump].age < ETF_MARGIN)
        => EtfRanksFirst

C24_Witness ==
    /\ scoring.done
    /\ scoring.items[1].id = ItemPump.id
    /\ scoring.items[ScoredEtf].age > scoring.items[ScoredPump].age
    /\ scoring.items[ScoredEtf].age - scoring.items[ScoredPump].age < ETF_MARGIN
    /\ scoring.out[1].id = ItemEtf.id

(***************************************************************************)
(* The four sections of the dashboard, each run on its own: the process    *)
(* serves price calls, or news requests, or AI insight calls, or meme      *)
(* calls.                                                                  *)
(***************************************************************************)
PriceOn == DOMAIN callers # {}
NewsOn == DOMAIN newsCalls # {}
AiOn == DOMAIN aiCalls # {}
MemeOn == DOMAIN memeCalls # {}

SectionsInit == Init \/ NewsInit \/ AiInit \/ MemeInit

SectionsNext ==
    \/ PriceOn /\ Next
    \/ NewsOn /\ NewsNext
    \/ AiOn /\ AiNext
    \/ MemeOn /\ MemeNext

SpecSections == SectionsInit /\ [][SectionsNext]_vars

\* C25: every read that succeeds returns content: no stored news record has
\* an empty item list and every answered news request carries items, every
\* fulfilled fetchPrices call returns a map with an entry, every
\* getDailyAiInsight call returns an item with a text, and every
\* getRandomMemeForUser call returns an item of the feed.
C25_ReadsNeverEmpty ==
    /\ \A i \in DOMAIN USER_NEWS : Len(USER_NEWS[i].items) > 0
    /\ \A u \in NewsUsers : Len(getUserNews(USER_NEWS, u).items) > 0
    /\ \A r \in DOMAIN newsCalls :
          (newsCalls[r].pc = "sent" /\ newsCalls[r].status = HTTP_SENT_OK)
              => Len(newsCalls[r].items) > 0
    /\ \A k \in DOMAIN PRICE_CACHE : DOMAIN PRICE_CACHE[k].data # {}
    /\ \A c \in DOMAIN callers :
          (callers[c].pc = "done" /\ callers[c].result.ok)
              => DOMAIN callers[c].result.data # {}
    /\ \A r \in DOMAIN aiCalls :
          aiCalls[r].pc = "done" => aiCalls[r].item.text # ""
    /\ \A r \in DOMAIN memeCalls :
          memeCalls[r].pc = "done"
              => /\ memeCalls[r].out.id # ""
                 /\ \E i \in DOMAIN memeCalls[r].feed :
                       memeCalls[r].feed[i] = memeCalls[r].out

\* a refresh whose upstream request failed has been answered, with items
C25_Witness ==
    \E r \in DOMAIN newsCalls :
        /\ newsCalls[r].pc = "sent"
        /\ newsCalls[r].kind = "refresh"
        /\ newsCalls[r].upstream = "failed"
        /\ newsCalls[r].status = HTTP_SENT_OK
        /\ Len(newsCalls[r].items) > 0

(***************************************************************************)
(* Feedback votes: POST /api/feedback/set, served one request after        *)
(* another, over the table feedback with its unique index.                 *)
(***************************************************************************)
VOTE_VALUES == {-1, 0, 1}
HTTP_BAD_REQUEST == 400
HTTP_SERVER_ERROR == 500

FbUsers == {"u1", "u2"}
\* req.body as the client sends it: "" stands for a missing field
FbTypes == {"meme", ""}
FbIds == {"meme-1", "__proto__", ""}
\* the body's vote, a JSON number or string, as text
RawVotes == {"1", "-1", "0", "2", "", "like"}

\* a JavaScript number: an integer of the model, or NaN
Num(n) == [nan |-> FALSE, n |-> n]
NaN == [nan |-> TRUE, n |-> 0]

\* Number(vote)
ToNumber(raw) ==
    CASE raw = "1" -> Num(1)
      [] raw = "-1" -> Num(-1)
      [] raw \in {"0", ""} -> Num(0)
      [] raw = "2" -> Num(2)
      [] OTHER -> NaN

\* a === b on numbers
StrictEq(a, b) == ~a.nan /\ ~b.nan /\ a.n = b.n

\* property names every plain object inherits from Object.prototype
OBJECT_PROTO_KEYS == {"__proto__", "constructor"}

\* out[k] = v on a plain object, as its own properties: the inherited
\* setter of __proto__ ignores a number
ObjectSet(own, k, v) == IF k = "__proto__" THEN own ELSE MapSet(own, k, v)

\* Number(obj[k] || 0): an own property, or the inherited object or
\* function (truthy, NaN as a number), or undefined
NumberOrZero(own, k) ==
    IF k \in DOMAIN own THEN Num(own[k])
    ELSE IF k \in OBJECT_PROTO_KEYS THEN NaN
    ELSE Num(0)

\* getFeedbackForTargets for one id: the object built from the rows found
getFeedbackForTargets(table, u, ty, id) ==
    IF <<u, ty, id>> \in DOMAIN table
    THEN ObjectSet(<<>>, id, table[<<u, ty, id>>])
    ELSE <<>>

\* upsertFeedbackVote: a vote of 0 deletes the row, any other replaces it
upsertFeedbackVote(table, u, ty, id, vote) ==
    IF vote = 0 THEN MapDelete(table, <<u, ty, id>>)
    ELSE MapSet(table, <<u, ty, id>>, vote)

\* the vote the table holds for a target, 0 when there is no row
StoredVote(table, u, ty, id) ==
    IF <<u, ty, id>> \in DOMAIN table THEN table[<<u, ty, id>>] ELSE 0

FbIdle == [pc |-> "idle", user |-> "", type |-> "", id |-> "", voteNum |-> 0,
           before |-> 0, final |-> 0, status |-> 0, vote |-> 0]

FeedbackInit ==
    /\ now = 0
    /\ tokens = FULL
    /\ lastRefill = 0
    /\ lastTry = NoTry
    /\ markAt = -1
    /\ grants = 0
    /\ waiter = NoWaiter
    /\ PRICE_CACHE = <<>>
    /\ INFLIGHT = <<>>
    /\ SCHEDULED = {}
    /\ timers = <<>>
    /\ loaders = {}
    /\ callers = <<>>
    /\ USER_AI_CACHE = <<>>
    /\ AI_INFLIGHT_PER_USER = <<>>
    /\ computes = {}
    /\ aiCalls = <<>>
    /\ dash = <<>>
    /\ backoff = <<>>
    /\ USER_NEWS = <<>>
    /\ NEWS_CACHE = <<>>
    /\ newsCalls = <<>>
    /\ newsFetches = {}
    /\ refreshes = 0
    /\ aiLog = <<>>
    /\ clock = <<>>
    /\ MEME_CACHE = <<>>
    /\ MEME_CACHE_TS = 0
    /\ USER_MEME_RECENTS = <<>>
    /\ memeCalls = <<>>
    /\ memeLoads = {}
    /\ memeLast = <<>>
    /\ memeStarts = 0
    /\ scoring = <<>>
    /\ FEEDBACK = <<>>
    /\ fbCall = FbIdle
    /\ refreshLog = <<>>

fbFrame ==
    <<now, bucketVars, observerVars, priceVars, aiVars, dash, backoff, newsVars,
      aiLog, clock, memeVars, scoring, refreshLog>>

\* setFeedback, lines 43-51: validation, then the read of the current vote
FbSet(u, ty, id, raw) ==
    LET voteNum == ToNumber(raw)
        valid == ty # "" /\ id # "" /\ ~voteNum.nan /\ voteNum.n \in VOTE_VALUES
    IN
    /\ fbCall.pc = "idle"
    /\ fbCall' =
          IF ~valid
          THEN [FbIdle EXCEPT !.pc = "sent", !.user = u, !.type = ty, !.id = id,
                              !.status = HTTP_BAD_REQUEST]
          ELSE [FbIdle EXCEPT !.pc = "read", !.user = u, !.type = ty, !.id = id,
                              !.voteNum = voteNum.n,
                              !.before = StoredVote(FEEDBACK, u, ty, id)]
    /\ UNCHANGED <<FEEDBACK, fbFrame>>

\* lines 53-63: the rows arrive (or the query fails), the final vote is
\* computed and upsertFeedbackVote is called
FbRead(ok) ==
    LET c == fbCall
        currentMap == getFeedbackForTargets(FEEDBACK, c.user, c.type, c.id)
        current == NumberOrZero(currentMap, c.id)
        finalVote == IF StrictEq(current, Num(c.voteNum)) THEN 0 ELSE c.voteNum
    IN
    /\ fbCall.pc = "read"
    /\ fbCall' = IF ok THEN [c EXCEPT !.pc = "write", !.final = finalVote]
                 ELSE [c EXCEPT !.pc = "sent", !.status = HTTP_SERVER_ERROR]
    /\ UNCHANGED <<FEEDBACK, fbFrame>>

\* lines 65-76: the statement has run (or failed) and the answer is sent
FbWrite(ok) ==
    LET c == fbCall IN
    /\ fbCall.pc = "write"
    /\ IF ok
       THEN /\ FEEDBACK' = upsertFeedbackVote(FEEDBACK, c.user, c.type, c.id, c.final)
            /\ fbCall' = [c EXCEPT !.pc = "sent", !.status = HTTP_SENT_OK,
                                   !.vote = c.final]
       ELSE /\ fbCall' = [c EXCEPT !.pc = "sent", !.status = HTTP_SERVER_ERROR]
            /\ UNCHANGED FEEDBACK
    /\ UNCHANGED fbFrame

FbLeave ==
    /\ fbCall.pc = "sent"
    /\ fbCall' = FbIdle
    /\ UNCHANGED <<FEEDBACK, fbFrame>>

FeedbackNext ==
    \/ \E u \in FbUsers, ty \in FbTypes, id \in FbIds, raw \in RawVotes :
          FbSet(u, ty, id, raw)
    \/ \E ok \in BOOLEAN : FbRead(ok)
    \/ \E ok \in BOOLEAN : FbWrite(ok)
    \/ FbLeave

SpecFeedback == FeedbackInit /\ [][FeedbackNext]_vars

\* C26: a setFeedback call with vote v that is answered with success leaves
\* the stored vote of its target at 0 when the stored vote was v already and
\* at v otherwise, and reports that stored value; every stored vote is one
\* of -1, 0, 1.
C26_FeedbackToggle ==
    /\ \A k \in DOMAIN FEEDBACK : FEEDBACK[k] \in VOTE_VALUES
    /\ (fbCall.pc = "sent" /\ fbCall.status = HTTP_SENT_OK)
          => LET stored == StoredVote(FEEDBACK, fbCall.user, fbCall.type, fbCall.id)
             IN  /\ stored = IF fbCall.before = fbCall.voteNum THEN 0
                             ELSE fbCall.voteNum
                 /\ fbCall.vote = stored

(***************************************************************************)
(* Background refreshes of the price cache, from an empty bucket: the      *)
(* calls, loaders and timers of the price section, with an observer of     *)
(* what each fired refresh found.                                          *)
(***************************************************************************)
\* bounds: the loaders that fetchPrices calls may start and the refreshes
\* that they may schedule (the consumers of tokens of a run)
MaxCallStarts == 1
MaxCallSchedules == 2

\* the clock of these runs ends when the bucket has refilled a token for
\* each of these consumers, and a timer set for the last one is due
RefreshMaxTime ==
    (MaxCallStarts + MaxCallSchedules) * msUntilNextToken(0) + MIN_BG_DELAY_MS

RefreshKeys == {priceKey(a) : a \in AssetLists}

NoFire == [key |-> <<>>, saw |-> "none", at |-> 0]
RefreshLog0 == [fired |-> NoFire, starts |-> 0, scheds |-> 0, again |-> {}]

\* the bucket has been emptied at boot by calls for keys that the runs do
\* not ask for again
RefreshInit ==
    /\ now = 0
    /\ tokens = 0
    /\ lastRefill = 0
    /\ lastTry = NoTry
    /\ markAt = -1
    /\ grants = 0
    /\ waiter = NoWaiter
    /\ PriceInit
    /\ USER_AI_CACHE = <<>>
    /\ AI_INFLIGHT_PER_USER = <<>>
    /\ computes = {}
    /\ aiCalls = <<>>
    /\ dash = <<>>
    /\ backoff = <<>>
    /\ USER_NEWS = <<>>
    /\ NEWS_CACHE = <<>>
    /\ newsCalls = <<>>
    /\ newsFetches = {}
    /\ refreshes = 0
    /\ aiLog = <<>>
    /\ clock = <<>>
    /\ MEME_CACHE = <<>>
    /\ MEME_CACHE_TS = 0
    /\ USER_MEME_RECENTS = <<>>
    /\ memeCalls = <<>>
    /\ memeLoads = {}
    /\ memeLast = <<>>
    /\ memeStarts = 0
    /\ scoring = <<>>
    /\ FEEDBACK = <<>>
    /\ fbCall = <<>>
    /\ refreshLog = RefreshLog0

refreshFrame ==
    <<observerVars, aiVars, dash, backoff, newsVars, aiLog, clock, memeVars,
      scoring, fbVars>>

\* a request of the /prices route calls fetchPrices
RefreshCall(c, assets) ==
    /\ Quiet
    /\ \A d \in Callers : callers[d].pc = "idle" => c <= d
    /\ fetchPrices(c, assets)
    /\ loaders' # loaders => refreshLog.starts < MaxCallStarts
    /\ timers' # timers => refreshLog.scheds < MaxCallSchedules
    /\ refreshLog' = [refreshLog EXCEPT
          !.starts = IF loaders' # loaders THEN @ + 1 ELSE @,
          !.scheds = IF timers' # timers THEN @ + 1 ELSE @]
    /\ UNCHANGED <<now, refreshFrame>>

\* what the callback of timer i finds: a loader in flight, a token (it
\* starts a loader), or neither
RefreshSaw(i) ==
    IF timers[i].key \in DOMAIN INFLIGHT THEN "inflight"
    ELSE IF tryConsumeToken(tokens, lastRefill, now).ok THEN "started"
    ELSE "limited"

\* a timer of scheduleBackgroundRefresh fires; the observer notes its key
\* and what it found, and the keys whose refresh had to set itself again
RefreshFires(i) ==
    /\ timerCallback(i)
    /\ refreshLog' = [refreshLog EXCEPT
          !.fired = [key |-> timers[i].key, saw |-> RefreshSaw(i), at |-> now],
          !.again = IF RefreshSaw(i) = "limited" THEN @ \cup {timers[i].key}
                                                 ELSE @]
    /\ UNCHANGED <<now, PRICE_CACHE, callers, refreshFrame>>

RefreshTick ==
    /\ Quiet
    /\ \E t \in PriceWakeTimes : t > now /\ t <= RefreshMaxTime /\ now' = t
    /\ UNCHANGED <<bucketVars, priceVars, refreshLog, refreshFrame>>

RefreshNext ==
    \/ \E c \in Callers, a \in AssetLists : RefreshCall(c, a)
    \/ \E l \in loaders : \E resp \in Responses(l.key) : LoaderSettles(l, resp)
    \/ \E i \in DOMAIN timers : RefreshFires(i)
    \/ \E c \in Callers : CallerReturns(c)
    \/ RefreshTick

SpecRefresh == RefreshInit /\ [][RefreshNext]_vars

\* the event loop runs every timer that is due and every settled promise's
\* continuation, whatever requests arrive in between, and the clock moves on
RefreshFair ==
    /\ \A K \in RefreshKeys :
          SF_vars(\E i \in DOMAIN timers : timers[i].key = K /\ RefreshFires(i))
    /\ SF_vars(RefreshTick)
    /\ \A c \in Callers : WF_vars(CallerReturns(c))

SpecRefreshLive == SpecRefresh /\ RefreshFair

\* C27: a background refresh that fires for a key with a loader in flight
\* consumes no token, starts no loader, schedules nothing and leaves the
\* price cache as it is; it only removes the key's scheduled marker (and
\* its own timer).
C27_FiredOnInflightDoesNothing ==
    [][\A i \in DOMAIN timers :
          (RefreshFires(i) /\ timers[i].key \in DOMAIN INFLIGHT)
              => /\ tokens' = tokens
                 /\ lastRefill' = lastRefill
                 /\ loaders' = loaders
                 /\ INFLIGHT' = INFLIGHT
                 /\ PRICE_CACHE' = PRICE_CACHE
                 /\ callers' = callers
                 /\ SCHEDULED' = SCHEDULED \ {timers[i].key}
                 /\ timers' = TimersWithout(i)]_vars

\* a refresh has fired and found the loader of its key, which is still in
\* flight
C27_Witness ==
    /\ refreshLog.fired.saw = "inflight"
    /\ refreshLog.fired.at = now
    /\ refreshLog.fired.key \in DOMAIN INFLIGHT
    /\ refreshLog.fired.key \notin SCHEDULED

\* C28: a scheduled background refresh is not lost: from any state in which
\* a refresh is pending for a key, a loader for that key is eventually in
\* flight (started by the refresh, or found in flight when it fires), the
\* refresh setting itself again each time it fires without a token.
C28_RefreshNeverLost ==
    \A K \in RefreshKeys : (K \in SCHEDULED) ~> (K \in DOMAIN INFLIGHT)

\* a refresh that fired without a token and set itself again has fired
\* again and started the loader of its key
C28_Witness ==
    /\ refreshLog.fired.saw = "started"
    /\ refreshLog.fired.key \in refreshLog.again
    /\ \E l \in loaders : l.key = refreshLog.fired.key /\ l.origin = "bg"
    /\ refreshLog.fired.key \notin SCHEDULED

\* C29: a loader that fails (the upstream throws, or answers with an empty
\* payload), started by fetchPrices or by a background refresh, leaves the
\* price cache as it was: the entry of its key keeps its data and its
\* timestamp, and no entry is created.
C29_FailedLoaderKeepsCache ==
    [][\A l \in loaders : \A resp \in Responses(l.key) :
          (LoaderSettles(l, resp) /\ (resp.thrown \/ DOMAIN resp.json = {}))
              => PRICE_CACHE' = PRICE_CACHE]_vars

\* a call that started a loader over a stale entry has its answer, the
\* loader has failed, and the entry is there with its old timestamp and
\* the data the call is answered with
C29_Witness ==
    \E c \in Callers :
        /\ callers[c].pc = "done"
        /\ callers[c].path = "started"
        /\ callers[c].key \in DOMAIN PRICE_CACHE
        /\ PRICE_CACHE[callers[c].key].ts < now
        /\ callers[c].result = Fulfilled(PRICE_CACHE[callers[c].key].data)
        /\ \A l \in loaders : l.key # callers[c].key

\* C30: no loader is in flight for a key whose cached entry is fresh, so
\* none is started while the entry is fresh, by a fetchPrices call or by a
\* fired background refresh.
C30_NoLoaderOnFreshEntry ==
    \A l \in loaders :
        ~(l.key \in DOMAIN PRICE_CACHE /\ IsFresh(PRICE_CACHE[l.key], now))

\* C31: every price loader is paid for by its own token: a step starts at
\* most one loader, and when it does the bucket, refilled to the instant of
\* the step, held a token and is debited exactly one; a fetchPrices call
\* that hits a fresh entry or joins a loader in flight leaves the bucket
\* as it is.
C31_LoaderPaidByToken ==
    [][LET r == Refill(tokens, lastRefill, now) IN
       /\ Cardinality(loaders' \ loaders) <= 1
       /\ loaders' \ loaders # {}
             => /\ r.tokens >= ONE_TOKEN
                /\ tokens' = r.tokens - ONE_TOKEN
                /\ lastRefill' = r.lastRefill
       /\ \A c \in Callers :
             (callers[c].pc = "idle" /\ callers'[c].path \in {"fresh", "joined"})
                 => (tokens' = tokens /\ lastRefill' = lastRefill)]_vars

\* a fetchPrices call has started a loader and another call has joined it,
\* after a fired refresh started one too: the bucket was debited for each
\* loader and is short of a token
C31_Witness ==
    /\ refreshLog.starts = 1
    /\ refreshLog.fired.saw = "started"
    /\ \E c, d \in Callers :
          /\ callers[c].path = "started"
          /\ callers[d].path = "joined"
          /\ callers[d].prom = callers[c].prom
          /\ \E l \in loaders : l.id = callers[c].prom /\ l.origin = "fg"
    /\ tokens < ONE_TOKEN

\* C32: the wait of fetchWithBackoff before the retry that follows attempt
\* i: with a numeric Retry-After of r seconds it is max(400, 1000 r) ms and
\* so at least 400 ms; without one it is min(1200 * 2^i, 5000) ms plus a
\* jitter below 300 ms and so at most 5300 ms.
C32_BackoffDelay ==
    backoff.pc = "sleep" =>
        LET wait == backoff.wake - now
            base == Min(BACKOFF_BASE_MS * 2^backoff.i, BACKOFF_CAP_MS)
        IN  IF backoff.retry.given
            THEN /\ backoff.retry.secs < 1 => wait = MIN_RETRY_AFTER_MS
                 /\ backoff.retry.secs >= 1 =>
                       /\ wait % MS_PER_SEC = 0
                       /\ wait \div MS_PER_SEC = backoff.retry.secs
                 /\ wait >= MIN_RETRY_AFTER_MS
            ELSE /\ wait >= base
                 /\ wait < base + JITTER_MS
                 /\ wait <= BACKOFF_CAP_MS + JITTER_MS

\* C33: a refresh request answered "Too soon" changes nothing: the user has
\* a row, the answer carries the time left of the refresh interval (above 0
\* and at most the interval) with the items and updatedAt of that row, and
\* the per-user table, the fetch cache, the upstream requests under way and
\* the token bucket are as before.
C33_TooSoonChangesNothing ==
    [][\A r \in NewsSlots :
          (newsCalls[r].pc = "idle" /\ newsCalls'[r].status = HTTP_TOO_SOON)
              => LET c == newsCalls'[r]
                     at == NewsIndex(USER_NEWS, c.user)
                 IN  /\ at # 0
                     /\ c.pc = "sent"
                     /\ c.retryAfterMs > 0
                     /\ c.retryAfterMs <= NEWS_REFRESH_MIN_INTERVAL_MS
                     /\ c.retryAfterMs = NEWS_REFRESH_MIN_INTERVAL_MS
                                             - (now - USER_NEWS[at].lastRefreshAt)
                     /\ c.items = USER_NEWS[at].items
                     /\ c.updatedAt = USER_NEWS[at].updatedAt
                     /\ USER_NEWS' = USER_NEWS
                     /\ NEWS_CACHE' = NEWS_CACHE
                     /\ newsFetches' = newsFetches
                     /\ tokens' = tokens
                     /\ lastRefill' = lastRefill]_vars

\* a refresh request has been answered "Too soon" some time after the
\* user's last refresh, with the row that refresh stored
C33_Witness ==
    \E r \in NewsSlots :
        /\ newsCalls[r].pc = "sent"
        /\ newsCalls[r].kind = "refresh"
        /\ newsCalls[r].status = HTTP_TOO_SOON
        /\ newsCalls[r].retryAfterMs > 0
        /\ newsCalls[r].retryAfterMs < NEWS_REFRESH_MIN_INTERVAL_MS
        /\ NewsIndex(USER_NEWS, newsCalls[r].user) # 0
        /\ newsCalls[r].updatedAt = getUserNews(USER_NEWS, newsCalls[r].user).updatedAt
        /\ newsCalls[r].updatedAt >= NewsBootMs

\* C34: getDailyAiInsight does not end with an error: every call that is
\* over has an item. When the compute fails and the user has no record of
\* the current period, the calls awaiting it are given one of the canned
\* texts, which is stored for the user under the current period key; and a
\* call that follows, in the same period, a call answered with a canned
\* text is given the same item and invokes no compute.
AiThrown == [thrown |-> TRUE, item |-> NoItem]
AiEndsWithItem ==
    \A r \in Callers : aiCalls[r].pc = "done" => aiCalls[r].item # NoItem
AiFallbackSticks ==
    \A r \in Callers :
        (aiCalls[r].pc = "done" /\ aiLog.calls[r].prior.has
            /\ aiLog.calls[r].prior.item.id = "ai-static"
            /\ aiLog.calls[r].prior.key = aiLog.calls[r].key)
        => (aiCalls[r].item = aiLog.calls[r].prior.item
               /\ aiLog.calls[r].path # "started")
AiFallbackStored ==
    \A p \in computes : \A fb \in LOCAL_AI_FALLBACKS :
        (AiSettles(p, AiThrown, fb)
            /\ ~AiHit(USER_AI_CACHE, p.user, currentPeriodKey(now)))
        => LET at == AiIndex(USER_AI_CACHE', p.user) IN
           /\ at # 0
           /\ USER_AI_CACHE'[at].key = currentPeriodKey(now)
           /\ USER_AI_CACHE'[at].item = StaticItem(fb)
           /\ \A r \in Callers :
                 (aiCalls[r].pc = "waiting" /\ aiCalls[r].prom = p.id)
                     => aiCalls'[r].item = StaticItem(fb)
C34_FailedComputeFallsBack ==
    /\ [](AiEndsWithItem /\ AiFallbackSticks)
    /\ [][AiFallbackStored]_vars

(***************************************************************************)
(* The per-user AI table over a morning: calls of three users, with a      *)
(* table of AI_MAX_USERS records, and a clock that crosses the cutoff      *)
(* hour, so that a user's record is written again after another user's.    *)
(***************************************************************************)
\* bound: the hours the clock of these runs advances
TableMaxHours == 2

TableUsers == Users \cup {"u3"}
AiIds(cache) == {cache[i].id : i \in DOMAIN cache}

TableInit ==
    /\ now = 0
    /\ tokens = FULL
    /\ lastRefill = 0
    /\ lastTry = NoTry
    /\ markAt = -1
    /\ grants = 0
    /\ waiter = NoWaiter
    /\ PRICE_CACHE = <<>>
    /\ INFLIGHT = <<>>
    /\ SCHEDULED = {}
    /\ timers = <<>>
    /\ loaders = {}
    /\ callers = <<>>
    /\ USER_AI_CACHE = <<>>
    /\ AI_INFLIGHT_PER_USER = <<>>
    /\ computes = {}
    /\ aiCalls = [r \in Callers |-> AiIdle]
    /\ dash = <<>>
    /\ backoff = <<>>
    /\ USER_NEWS = <<>>
    /\ NEWS_CACHE = <<>>
    /\ newsCalls = <<>>
    /\ newsFetches = {}
    /\ refreshes = 0
    /\ aiLog = [evicted |-> {}]
    /\ clock = <<>>
    /\ MoreOff

tableFrame ==
    <<bucketVars, observerVars, priceVars, dash, backoff, newsVars, clock,
      moreVars>>

\* some request calls getDailyAiInsight for user u
TableCall(r, u) ==
    /\ AiQuiet
    /\ \A q \in Callers : aiCalls[q].pc = "idle" => r <= q
    /\ getDailyAiInsight(r, u)
    /\ UNCHANGED <<now, aiLog, tableFrame>>

\* fetchAiInsight settles; the observer notes the users whose record the
\* store removed
TableSettles(p, outcome, fb) ==
    /\ wrapperSettles(p, outcome, fb)
    /\ aiLog' = [aiLog EXCEPT
          !.evicted = @ \cup (AiIds(USER_AI_CACHE) \ AiIds(USER_AI_CACHE'))]
    /\ UNCHANGED <<now, tableFrame>>

\* the caller has its item
TableReturn(r) ==
    /\ aiCalls[r].pc = "done"
    /\ aiCalls' = [aiCalls EXCEPT ![r] = AiIdle]
    /\ UNCHANGED <<now, USER_AI_CACHE, AI_INFLIGHT_PER_USER, computes, aiLog,
                   tableFrame>>

TableTick ==
    /\ AiQuiet
    /\ now + MS_PER_HOUR <= TableMaxHours * MS_PER_HOUR
    /\ now' = now + MS_PER_HOUR
    /\ UNCHANGED <<aiVars, aiLog, tableFrame>>

TableNext ==
    \/ \E r \in Callers, u \in TableUsers : TableCall(r, u)
    \/ \E p \in computes : \E o \in DashAiOutcomes(now), fb \in DashFallbacks :
          TableSettles(p, o, fb)
    \/ \E r \in Callers : TableReturn(r)
    \/ TableTick

SpecAiTable == TableInit /\ [][TableNext]_vars

\* C35: the per-user AI table never holds more than AI_MAX_USERS records;
\* a store for a user without a record at full size removes exactly one
\* record, one with the smallest ts, and any other step removes none.
C35_AiLruBound ==
    /\ [](Len(USER_AI_CACHE) <= AI_MAX_USERS)
    /\ [][LET old == AiIds(USER_AI_CACHE)
              new == AiIds(USER_AI_CACHE')
          IN  IF new \ old = {}
              THEN new = old
              ELSE /\ Cardinality(new \ old) = 1
                   /\ IF Len(USER_AI_CACHE) >= AI_MAX_USERS
                      THEN \E i \in DOMAIN USER_AI_CACHE :
                              /\ old \ new = {USER_AI_CACHE[i].id}
                              /\ \A j \in DOMAIN USER_AI_CACHE :
                                    USER_AI_CACHE[i].ts <= USER_AI_CACHE[j].ts
                      ELSE old \subseteq new]_vars

\* the table is full and a store has removed a record that was not the one
\* inserted first: the record before it had been written again since
C35_Witness ==
    /\ Len(USER_AI_CACHE) = AI_MAX_USERS
    /\ aiLog.evicted # {}
    /\ \E i, j \in DOMAIN USER_AI_CACHE :
          /\ i < j
          /\ USER_AI_CACHE[j].ts = now
          /\ USER_AI_CACHE[i].ts > 0
          /\ \A u \in aiLog.evicted : u # USER_AI_CACHE[i].id

(***************************************************************************)
(* The pick of getRandomMemeForUser, lines 940-958, on a feed of more      *)
(* than MEME_PICK_TOP items: the entropy of each score and the index that  *)
(* Math.random gives are drawn, the sort and the slices are computed.      *)
(***************************************************************************)
PickUser == "u1"

\* nine posts, in the order of the feed; for a long-term holder of bitcoin
\* they score 0, -5, 64, 0, 15, 37, 0, 12 and 24 before the entropy
PickFeed ==
    <<MemeItem("p6", "", 0, FALSE, FALSE, FALSE),
      MemeItem("p9", "", 0, FALSE, FALSE, TRUE),
      MemeItem("p1", "bitcoin", 2, TRUE, TRUE, FALSE),
      MemeItem("p7", "", 0, TRUE, FALSE, FALSE),
      MemeItem("p4", "", 0, FALSE, TRUE, FALSE),
      MemeItem("p2", "bitcoin", 1, TRUE, FALSE, FALSE),
      MemeItem("p8", "ethereum", 1, FALSE, FALSE, FALSE),
      MemeItem("p5", "bitcoin", 1, FALSE, FALSE, FALSE),
      MemeItem("p3", "bitcoin", 2, FALSE, FALSE, FALSE)>>

\* the user's window when the call arrives: empty, the best post, the two
\* best posts, every post but the worst, every post
PickWindows ==
    {<<>>, <<"p1">>, <<"p2", "p1">>,
     <<"p1", "p2", "p3", "p4", "p5", "p6", "p7", "p8">>,
     <<"p1", "p2", "p3", "p4", "p5", "p6", "p7", "p8", "p9">>}

\* Math.random() * 3 of each score, at its two ends
PickEntropies == [DOMAIN PickFeed -> {0, MEME_ENTROPY - 1}]

\* lines 940-947: the posts with an id that is not in the window, each
\* with its score
memeScored(feed, recents, prefs, ent) ==
    LET all == [i \in DOMAIN feed |->
                   [m |-> feed[i], s |-> scoreMemeForUser(feed[i], prefs) + ent[i]]]
    IN  SelectSeq(all, LAMBDA x : x.m.id # "" /\ x.m.id \notin recents)

\* line 950: the candidates, or the whole feed at score 0
memePool(feed, recents, prefs, ent) ==
    IF Len(memeScored(feed, recents, prefs, ent)) > 0
    THEN memeScored(feed, recents, prefs, ent)
    ELSE [i \in DOMAIN feed |-> [m |-> feed[i], s |-> 0]]

\* line 951: pool.sort((a, b) => b.s - a.s), a stable sort
RECURSIVE InsertDescending(_, _)
InsertDescending(sorted, x) ==
    IF sorted = <<>> THEN <<x>>
    ELSE IF Head(sorted).s >= x.s
    THEN <<Head(sorted)>> \o InsertDescending(Tail(sorted), x)
    ELSE <<x>> \o sorted

RECURSIVE SortDescending(_, _)
SortDescending(items, acc) ==
    IF items = <<>> THEN acc
    ELSE SortDescending(Tail(items), InsertDescending(acc, Head(items)))

\* line 953: pool.slice(0, 40)
memeTop(feed, recents, prefs, ent) ==
    LET sorted == SortDescending(memePool(feed, recents, prefs, ent), <<>>)
    IN  SubSeq(sorted, 1, Min(MEME_TOP_SLICE, Len(sorted)))

\* faulty variant: the index is drawn over the whole slice
pickLimitSlice(n) == n

\* line 954: Math.min(8, top.length)
pickLimit(n) == Min(MEME_PICK_TOP, n)

PickInit ==
    /\ now = NewsBootMs
    /\ tokens = FULL
    /\ lastRefill = 0
    /\ lastTry = NoTry
    /\ markAt = -1
    /\ grants = 0
    /\ waiter = NoWaiter
    /\ PRICE_CACHE = <<>>
    /\ INFLIGHT = <<>>
    /\ SCHEDULED = {}
    /\ timers = <<>>
    /\ loaders = {}
    /\ callers = <<>>
    /\ USER_AI_CACHE = <<>>
    /\ AI_INFLIGHT_PER_USER = <<>>
    /\ computes = {}
    /\ aiCalls = <<>>
    /\ dash = <<>>
    /\ backoff = <<>>
    /\ USER_NEWS = <<>>
    /\ NEWS_CACHE = <<>>
    /\ newsCalls = <<>>
    /\ newsFetches = {}
    /\ refreshes = 0
    /\ aiLog = <<>>
    /\ clock = <<>>
    /\ MEME_CACHE = PickFeed
    /\ MEME_CACHE_TS = NewsBootMs
    /\ memeCalls = <<>>
    /\ memeLoads = {}
    /\ memeLast = <<>>
    /\ memeStarts = 0
    /\ FEEDBACK = <<>>
    /\ fbCall = <<>>
    /\ refreshLog = <<>>
    /\ \E w \in PickWindows, e \in PickEntropies :
          /\ USER_MEME_RECENTS = [u \in {PickUser} |-> w]
          /\ scoring = [ent |-> e, had |-> Range(w), done |-> FALSE, out |-> NoMeme]

\* getRandomMemeForUser with the feed at hand (the cache is fresh): the
\* index k is what Math.floor(Math.random() * Math.min(8, top.length)) gives
PickApply(k) ==
    LET top == memeTop(MEME_CACHE, Range(USER_MEME_RECENTS[PickUser]),
                       MemePrefs(PickUser), scoring.ent)
    IN
    /\ ~scoring.done
    /\ k < pickLimit(Len(top))
    /\ scoring' = [scoring EXCEPT !.done = TRUE, !.out = top[k + 1].m]
    /\ USER_MEME_RECENTS' =
          markUserRecent(USER_MEME_RECENTS, PickUser, top[k + 1].m.id)
    /\ UNCHANGED <<now, bucketVars, observerVars, priceVars, aiVars, dash,
                   backoff, newsVars, aiLog, clock, MEME_CACHE, MEME_CACHE_TS,
                   memeCalls, memeLoads, memeLast, memeStarts, fbVars,
                   refreshLog>>

PickNext == \E k \in 0..(Len(PickFeed) - 1) : PickApply(k)

SpecPick == PickInit /\ [][PickNext]_vars

\* C36: the item getRandomMemeForUser returns belongs to the feed and its
\* id is in the user's window afterwards; when the feed holds an item that
\* was not in the window, the returned item was not in the window and fewer
\* than 8 of the items that were not in the window have a higher score;
\* an item that was in the window is returned only when every item of the
\* feed was.
PickScoreOf(i) ==
    scoreMemeForUser(MEME_CACHE[i], MemePrefs(PickUser)) + scoring.ent[i]
PickUnseen == {i \in DOMAIN MEME_CACHE : MEME_CACHE[i].id \notin scoring.had}
C36_PickFromTopUnseen ==
    scoring.done =>
        \E i \in DOMAIN MEME_CACHE :
            /\ MEME_CACHE[i] = scoring.out
            /\ scoring.out.id \in Range(USER_MEME_RECENTS[PickUser])
            /\ PickUnseen # {} =>
                  /\ i \in PickUnseen
                  /\ Cardinality({j \in PickUnseen : PickScoreOf(j) > PickScoreOf(i)})
                        < MEME_PICK_TOP
            /\ i \notin PickUnseen => PickUnseen = {}

\* all nine posts were new to the user, and the one returned is the one
\* that eight others do not beat: the entropy has put it eighth
C36_Witness ==
    /\ scoring.done
    /\ scoring.had = {}
    /\ scoring.out.id = "p7"
    /\ Cardinality({j \in PickUnseen : PickScoreOf(j) > PickScoreOf(4)})
          = MEME_PICK_TOP - 1
    /\ "p7" \in Range(USER_MEME_RECENTS[PickUser])

(***************************************************************************)
(* The windows of recently shown ids: the global one of getRandomMeme      *)
(* (RECENT_IDS, RECENT_QUEUE) and the one kept per user.  A window is a    *)
(* Set and an array, updated side by side; they are kept apart here, so    *)
(* that their agreement is something to check.  Post ids are numbered:     *)
(* id n is the n-th distinct id a window is given.                         *)
(***************************************************************************)
RECENT_MAX == 100

\* recordings applied in one run, after the windows were filled
RecentMaxRecords == 4

RecentUsers == {"u1", "u2"}
RecentIds == 1..(RECENT_MAX + RecentMaxRecords + 1)

EmptyWindow == [set |-> {}, queue |-> <<>>]

\* faulty variant: the id shifted out of the queue stays in the set
recordRecentKeepsSet(w, id) ==
    IF id \in w.set THEN w
    ELSE LET q == Append(w.queue, id)
         IN  [set |-> w.set \cup {id},
              queue |-> IF Len(q) > RECENT_MAX THEN Tail(q) ELSE q]

\* _recordRecent, on the window w = (RECENT_IDS, RECENT_QUEUE)
recordRecent(w, id) ==
    IF id \in w.set THEN w
    ELSE LET s == w.set \cup {id}
             q == Append(w.queue, id)
         IN  IF Len(q) > RECENT_MAX
             THEN [set |-> s \ {Head(q)}, queue |-> Tail(q)]
             ELSE [set |-> s, queue |-> q]

\* lines 871-874: while (r.queue.length > 80) { shift; delete }
RECURSIVE shiftWhileOver(_)
shiftWhileOver(r) ==
    IF Len(r.queue) > USER_RECENT_MAX
    THEN shiftWhileOver([set |-> r.set \ {Head(r.queue)},
                         queue |-> Tail(r.queue)])
    ELSE r

\* _getUserRecents with the entry as the code keeps it: { set, queue }
getUserWindow(table, u) ==
    IF u \in DOMAIN table THEN table ELSE MapSet(table, u, EmptyWindow)

\* faulty variant: the queue is shifted once the bound is reached, and the
\* id at its new head, not the one shifted out, leaves the set
markUserWindowSecond(table, u, id) ==
    LET t == getUserWindow(table, u)
        q == Append(t[u].queue, id)
    IN  IF id \in t[u].set THEN t
        ELSE IF Len(q) > USER_RECENT_MAX
             THEN [t EXCEPT ![u] = [set |-> (t[u].set \cup {id}) \ {q[2]},
                                    queue |-> Tail(q)]]
             ELSE [t EXCEPT ![u] = [set |-> t[u].set \cup {id}, queue |-> q]]

\* _markUserRecent, on the table USER_MEME_RECENTS
markUserWindow(table, u, id) ==
    LET t == getUserWindow(table, u)
    IN  IF id \in t[u].set THEN t
        ELSE [t EXCEPT ![u] =
                 shiftWhileOver([set |-> t[u].set \cup {id},
                                 queue |-> Append(t[u].queue, id)])]

\* the window after the ids 1..n were recorded in turn, for n up to its bound
RecentFilled(n) == [set |-> 1..n, queue |-> [i \in 1..n |-> i]]

\* the table after each of the users was given the ids 1..n in turn
UserFilled(us, n) ==
    IF n = 0 THEN <<>> ELSE [u \in us |-> RecentFilled(n)]

\* observer of one window: when each id was put in last, counted in
\* insertions, and how many insertions there were
StampFilled(n) == [stamp |-> [i \in 1..n |-> i], n |-> n]
StampPut(o, id) == [stamp |-> MapSet(o.stamp, id, o.n + 1), n |-> o.n + 1]

\* the ids a window is given next: one it never had, the two at the ends of
\* its queue, and the first of those it has dropped
RecentNext(w, o) ==
    {o.n + 1} \cup (IF w.queue = <<>> THEN {}
                     ELSE {Head(w.queue), w.queue[Len(w.queue)]})
              \cup {i \in DOMAIN o.stamp :
                       /\ i \notin w.set
                       /\ \A j \in DOMAIN o.stamp : j \notin w.set => i <= j}

UserWindowOf(u) == getUserWindow(USER_MEME_RECENTS, u)[u]

RecentInit ==
    /\ now = NewsBootMs
    /\ tokens = FULL
    /\ lastRefill = 0
    /\ lastTry = NoTry
    /\ markAt = -1
    /\ grants = 0
    /\ waiter = NoWaiter
    /\ PRICE_CACHE = <<>>
    /\ INFLIGHT = <<>>
    /\ SCHEDULED = {}
    /\ timers = <<>>
    /\ loaders = {}
    /\ callers = <<>>
    /\ USER_AI_CACHE = <<>>
    /\ AI_INFLIGHT_PER_USER = <<>>
    /\ computes = {}
    /\ aiCalls = <<>>
    /\ dash = <<>>
    /\ backoff = <<>>
    /\ USER_NEWS = <<>>
    /\ NEWS_CACHE = <<>>
    /\ newsCalls = <<>>
    /\ newsFetches = {}
    /\ refreshes = 0
    /\ aiLog = <<>>
    /\ clock = <<>>
    /\ MEME_CACHE = <<>>
    /\ MEME_CACHE_TS = 0
    /\ memeCalls = <<>>
    /\ memeLoads = {}
    /\ memeStarts = 0
    /\ FEEDBACK = <<>>
    /\ fbCall = <<>>
    /\ refreshLog = <<>>
    /\ \E g \in {0, RECENT_MAX}, k \in {0, USER_RECENT_MAX} :
          /\ scoring = RecentFilled(g)
          /\ USER_MEME_RECENTS = UserFilled(RecentUsers, k)
          /\ memeLast = [global |-> StampFilled(g),
                         user |-> [u \in RecentUsers |-> StampFilled(k)],
                         last |-> [win |-> "", id |-> 0, had |-> FALSE]]

recentFrame ==
    /\ memeStarts < RecentMaxRecords
    /\ memeStarts' = memeStarts + 1
    /\ UNCHANGED <<now, bucketVars, observerVars, priceVars, aiVars, dash,
                   backoff, newsVars, aiLog, clock, MEME_CACHE, MEME_CACHE_TS,
                   memeCalls, memeLoads, fbVars, refreshLog>>

\* _recordRecent(id), as getRandomMeme calls it with the id it returns
RecordRecent(id) ==
    /\ id \in RecentNext(scoring, memeLast.global)
    /\ scoring' = recordRecent(scoring, id)
    /\ memeLast' =
          [memeLast EXCEPT
              !.global = IF id \in scoring.set THEN @ ELSE StampPut(@, id),
              !.last = [win |-> "global", id |-> id, had |-> id \in scoring.set]]
    /\ UNCHANGED USER_MEME_RECENTS
    /\ recentFrame

\* _markUserRecent(u, id), as getRandomMemeForUser calls it
MarkUserRecent(u, id) ==
    /\ id \in RecentNext(UserWindowOf(u), memeLast.user[u])
    /\ USER_MEME_RECENTS' = markUserWindow(USER_MEME_RECENTS, u, id)
    /\ memeLast' =
          [memeLast EXCEPT
              !.user[u] = IF id \in UserWindowOf(u).set THEN @
                          ELSE StampPut(@, id),
              !.last = [win |-> u, id |-> id,
                        had |-> id \in UserWindowOf(u).set]]
    /\ UNCHANGED scoring
    /\ recentFrame

RecentNextStep ==
    \/ \E id \in RecentIds : RecordRecent(id)
    \/ \E u \in RecentUsers, id \in RecentIds : MarkUserRecent(u, id)

SpecRecent == RecentInit /\ [][RecentNextStep]_vars

\* a window is a queue without repeats, no longer than max, and a set that
\* holds the ids of the queue and nothing else
WindowOk(w, max) ==
    /\ Len(w.queue) <= max
    /\ Cardinality(Range(w.queue)) = Len(w.queue)
    /\ w.set = Range(w.queue)

\* the ids that leave the window w on a step to w2 are no more than the one
\* id that was put in first among those it held, and it leaves a full window
OldestLeaves(w, w2, o, max) ==
    \A id \in w.set \ w2.set :
        /\ Len(w.queue) = max
        /\ \A other \in w.set : o.stamp[id] <= o.stamp[other]
        /\ w.set \ w2.set = {id}

\* C37: the global window never holds more than 100 ids and a user's never
\* more than 80, no id is twice in a queue, the set of a window is the set
\* of the ids in its queue, and an id leaves a window only when a new id
\* comes into a full one, and it is then the id that was put in first.
C37_WindowsAreBoundedFifos ==
    /\ [](/\ WindowOk(scoring, 100)
          /\ \A u \in DOMAIN USER_MEME_RECENTS :
                WindowOk(USER_MEME_RECENTS[u], 80))
    /\ [][/\ OldestLeaves(scoring, scoring', memeLast.global, 100)
          /\ \A u \in RecentUsers :
                OldestLeaves(UserWindowOf(u), UserWindowOf(u)',
                             memeLast.user[u], 80)]_vars

\* both kinds of window have dropped their first id for a new one, and the
\* recording made last was of an id its window already held
C37_Witness ==
    /\ Len(scoring.queue) = 100 /\ 1 \notin scoring.set
    /\ RECENT_MAX + 1 \in scoring.set
    /\ \E u \in DOMAIN USER_MEME_RECENTS :
          /\ Len(USER_MEME_RECENTS[u].queue) = 80
          /\ 1 \notin USER_MEME_RECENTS[u].set
          /\ USER_RECENT_MAX + 1 \in USER_MEME_RECENTS[u].set
    /\ memeLast.last.had

(***************************************************************************)
(* The build of the meme feed: what the sources return, the posts kept by  *)
(* _fetchOneSource, the dedupe loop of fetchRedditMemesFeed and the cache. *)
(* A post is its id and the image URL _pickImageFromPost finds for it,     *)
(* "" when it finds none.                                                  *)
(***************************************************************************)
\* posts the sources return to one build, and builds in one run
FeedMaxPosts == 3
FeedMaxBuilds == 2

FeedPostIds == {"a", "b"}
FeedImages == {"", "x", "y"}
FeedPosts == [id : FeedPostIds, img : FeedImages]

RECURSIVE SeqsUpTo(_, _)
SeqsUpTo(S, n) ==
    IF n = 0 THEN {<<>>}
    ELSE LET shorter == SeqsUpTo(S, n - 1)
         IN  shorter \cup {Append(q, x) : q \in shorter, x \in S}

\* the static memes as the feed holds them
StaticFeed ==
    [i \in DOMAIN STATIC_MEMES |->
        [id |-> STATIC_MEMES[i].id,
         img |-> IF i = 1 THEN "unsplash" ELSE "/memes/meme1.jpg"]]

\* _fetchOneSource, lines 756-765: a post without an image is left out
withImage(posts) == SelectSeq(posts, LAMBDA d : d.img # "")

\* line 805: the key `${m.id}::${m.img}`
memeKey(m) == m.id \o "::" \o m.img

\* lines 801-811: the loop over aggregated with the sets seen and seenImg
RECURSIVE dedupeFrom(_, _, _, _, _)
dedupeFrom(aggregated, i, seen, seenImg, deduped) ==
    IF i > Len(aggregated) THEN deduped
    ELSE LET m == aggregated[i]
             k == memeKey(m)
         IN  IF k \in seen \/ m.img \in seenImg
             THEN dedupeFrom(aggregated, i + 1, seen, seenImg, deduped)
             ELSE dedupeFrom(aggregated, i + 1, seen \cup {k},
                             seenImg \cup {m.img}, Append(deduped, m))

dedupe(aggregated) == dedupeFrom(aggregated, 1, {}, {}, <<>>)

FeedInit ==
    /\ now = NewsBootMs
    /\ tokens = FULL
    /\ lastRefill = 0
    /\ lastTry = NoTry
    /\ markAt = -1
    /\ grants = 0
    /\ waiter = NoWaiter
    /\ PRICE_CACHE = <<>>
    /\ INFLIGHT = <<>>
    /\ SCHEDULED = {}
    /\ timers = <<>>
    /\ loaders = {}
    /\ callers = <<>>
    /\ USER_AI_CACHE = <<>>
    /\ AI_INFLIGHT_PER_USER = <<>>
    /\ computes = {}
    /\ aiCalls = <<>>
    /\ dash = <<>>
    /\ backoff = <<>>
    /\ USER_NEWS = <<>>
    /\ NEWS_CACHE = <<>>
    /\ newsCalls = <<>>
    /\ newsFetches = {}
    /\ refreshes = 0
    /\ aiLog = <<>>
    /\ clock = <<>>
    /\ MEME_CACHE = <<>>
    /\ MEME_CACHE_TS = 0
    /\ USER_MEME_RECENTS = <<>>
    /\ memeCalls = <<>>
    /\ memeLoads = {}
    /\ memeLast = <<>>
    /\ memeStarts = 0
    /\ scoring = [got |-> <<>>, out |-> <<>>, served |-> FALSE]
    /\ FEEDBACK = <<>>
    /\ fbCall = <<>>
    /\ refreshLog = <<>>

feedFrame ==
    <<bucketVars, observerVars, priceVars, aiVars, dash, backoff, newsVars,
      aiLog, clock, USER_MEME_RECENTS, memeCalls, memeLoads, memeLast, fbVars,
      refreshLog>>

\* fetchRedditMemesFeed without a fresh cache: the sources return the posts
\* got (a source that fails adds nothing), the feed is built and stored
FeedBuild(got) ==
    /\ ~MemeFresh
    /\ memeStarts < FeedMaxBuilds
    /\ memeStarts' = memeStarts + 1
    /\ LET deduped == dedupe(withImage(got))
           feed == IF Len(deduped) = 0 THEN StaticFeed ELSE deduped
       IN  /\ MEME_CACHE' = feed
           /\ MEME_CACHE_TS' = now
           /\ scoring' = [got |-> got, out |-> feed, served |-> FALSE]
    /\ UNCHANGED <<now, feedFrame>>

\* fetchRedditMemesFeed with a fresh cache, lines 776-778
FeedServe ==
    /\ MemeFresh
    /\ ~scoring.served
    /\ scoring' = [scoring EXCEPT !.out = MEME_CACHE, !.served = TRUE]
    /\ UNCHANGED <<now, MEME_CACHE, MEME_CACHE_TS, memeStarts, feedFrame>>

\* the clock advances to the expiry of the cached feed
FeedTick ==
    /\ MemeFresh
    /\ now' = MEME_CACHE_TS + MEME_CACHE_TTL_MS
    /\ UNCHANGED <<MEME_CACHE, MEME_CACHE_TS, memeStarts, scoring, feedFrame>>

FeedNext ==
    \/ \E got \in SeqsUpTo(FeedPosts, FeedMaxPosts) : FeedBuild(got)
    \/ FeedServe
    \/ FeedTick

SpecFeed == FeedInit /\ [][FeedNext]_vars

\* C38: no two items of the cached feed have the same id, whatever posts
\* the sources returned to the build.
C38_FeedIdsDistinct ==
    \A i, j \in DOMAIN MEME_CACHE :
        MEME_CACHE[i].id = MEME_CACHE[j].id => i = j

====
